---- MODULE Spec2Model ----
(***************************************************************************)
(* Invoice categorisation pipeline: sequential clustering of invoice       *)
(* descriptions per supplier, one representative per cluster, batches of   *)
(* representatives classified by an LLM in parallel threads with retry,    *)
(* and the merge of the categories back onto every invoice line.           *)
(***************************************************************************)
EXTENDS Integers, Sequences, FiniteSets, TLC

(***************************************************************************)
(* Bounds of the model.                                                    *)
(***************************************************************************)
MaxRecords == 3         \* rows of the input dataframe
MaxRespLen == 2         \* items of one validated LLM response
MaxRespId == 2          \* largest identifier an LLM response may name
BATCH_SIZE == 2         \* Config.BATCH_SIZE, scaled down
MaxTextLen == 3         \* characters of a text given to clean_text
MaxListLen == 2         \* elements of a list of a raw LLM response
MaxBatchSize == 3       \* largest batch size given to split_into_batches

(***************************************************************************)
(* Program constants.                                                      *)
(***************************************************************************)
LLM_Tries == 3
ThresholdPct == 80      \* threshold=0.8, in hundredths

Sentinel == "No categorizzato"
SYSTEM_PROMPT == "SYSTEM_PROMPT"
NaN == "NaN"            \* missing value of a string column
NaNNumber == 0 - 9      \* missing value of a numeric column

PIVAs == <<"P1", "P2">>                 \* supplier keys, in ascending order
\* the invoice lines <<P_IVA, DESCRIZIONE>> of the pipeline runs
Lines == {<<"P1", "buy bread">>, <<"P1", "pay rent">>, <<"P2", "pay rent">>}
Cats == {"Food", "Rent"}

(***************************************************************************)
(* Strings.  A text is a sequence of one-character strings; Chars gives    *)
(* the text of each description that an invoice line may carry.  A         *)
(* character outside ASCII is written as its code point: U+00A0 no-break   *)
(* space, U+00C9 and U+00E9 capital and small e with acute, U+0130 capital *)
(* I with dot above, U+0307 combining dot above, U+212A kelvin sign.       *)
(***************************************************************************)
Chars(s) ==
    CASE s = "buy bread" -> <<"b","u","y"," ","b","r","e","a","d">>
      [] s = "buy bred"  -> <<"b","u","y"," ","b","r","e","d">>
      [] s = "pay rent"  -> <<"p","a","y"," ","r","e","n","t">>
      [] s = "Pay rent"  -> <<"P","a","y"," ","r","e","n","t">>
      [] s = "12"        -> <<"1","2">>
      [] s = "3.4"       -> <<"3",".","4">>
      [] s = ""          -> << >>
      [] s = "Bp"        -> <<"B","p">>
      [] s = "ba"        -> <<"b","a">>
      [] s = "da"        -> <<"d","a">>
      [] s = "dp"        -> <<"d","p">>
      [] s = "<U+00E9>bp" -> <<"U+00E9","b","p">>

\* the characters in ascending code point order
CodeOrder ==
    <<"\t", " ", ".", "1", "2", "3", "4", "B", "P",
      "a", "b", "d", "e", "i", "k", "n", "p", "r", "t", "u", "y",
      "U+00A0", "U+00C9", "U+00E9", "U+0130", "U+0307", "U+212A">>

Code(c) == CHOOSE k \in 1..Len(CodeOrder) : CodeOrder[k] = c

LowerLetters == {"a", "b", "d", "e", "i", "k", "n", "p", "r", "t", "u", "y"}
UpperLetters == {"B", "P"}
\* the characters that \s of re matches in a str, and that str.strip() strips
Whitespace == {"\t", " ", "U+00A0"}

\* str < str of Python: lexicographic by code point
StrLess(a, b) ==
    \E k \in 1..(Len(a) + 1) :
        /\ \A m \in 1..(k - 1) : m <= Len(b) /\ a[m] = b[m]
        /\ \/ k = Len(a) + 1 /\ Len(b) >= k
           \/ k <= Len(a) /\ k <= Len(b) /\ Code(a[k]) < Code(b[k])

PivaCode(p) == CHOOSE k \in 1..Len(PIVAs) : PIVAs[k] = p

(***************************************************************************)
(* DataProcessor.clean_text                                                *)
(***************************************************************************)
\* str.lower() of the one character c: the full lowercase mapping of Unicode
Lower(c) ==
    CASE c = "B" -> <<"b">>
      [] c = "P" -> <<"p">>
      [] c = "U+00C9" -> <<"U+00E9">>
      [] c = "U+0130" -> <<"i", "U+0307">>
      [] c = "U+212A" -> <<"k">>
      [] OTHER -> <<c>>

\* re.sub(r'[^a-z\s]', ' ', text)
NonAlphaToSpace(text) ==
    [k \in 1..Len(text) |->
        IF text[k] \in LowerLetters \cup Whitespace THEN text[k] ELSE " "]

\* re.sub(r'\s+', ' ', text): every maximal run of whitespace becomes one space
RECURSIVE CollapseSpaces(_)
CollapseSpaces(text) ==
    IF text = << >> THEN << >>
    ELSE LET rest == CollapseSpaces(Tail(text))
         IN  IF Head(text) \in Whitespace
             THEN IF Len(text) > 1 /\ text[2] \in Whitespace
                  THEN rest
                  ELSE <<" ">> \o rest
             ELSE <<Head(text)>> \o rest

RECURSIVE LStrip(_)
LStrip(text) ==
    IF text # << >> /\ Head(text) \in Whitespace THEN LStrip(Tail(text)) ELSE text

RECURSIVE RStrip(_)
RStrip(text) ==
    IF text # << >> /\ text[Len(text)] \in Whitespace
    THEN RStrip(SubSeq(text, 1, Len(text) - 1))
    ELSE text

\* slip: lstrip()
StripLeft(text) == LStrip(text)

Strip(text) == RStrip(LStrip(text))

RECURSIVE ToLower(_)
ToLower(text) ==
    IF text = << >> THEN << >> ELSE Lower(Head(text)) \o ToLower(Tail(text))

\* slip: the two substitutions in the other order
clean_text_collapse_first(text) ==
    Strip(NonAlphaToSpace(CollapseSpaces(ToLower(text))))

clean_text(text) == Strip(CollapseSpaces(NonAlphaToSpace(ToLower(text))))

(***************************************************************************)
(* DataProcessor.similar: difflib.SequenceMatcher(None, a, b).ratio()      *)
(***************************************************************************)
\* the matching blocks <<i, j, k>> of a[alo+1..ahi] and b[blo+1..bhi]
\* (0-based half-open ranges as in difflib)
MatchCandidates(a, b, alo, ahi, blo, bhi) ==
    {t \in (alo..(ahi - 1)) \X (blo..(bhi - 1)) \X (1..(ahi - alo)) :
        /\ t[1] + t[3] <= ahi
        /\ t[2] + t[3] <= bhi
        /\ \A m \in 1..t[3] : a[t[1] + m] = b[t[2] + m]}

\* longest block; among those the earliest in a, then the earliest in b
find_longest_match(a, b, alo, ahi, blo, bhi) ==
    LET c == MatchCandidates(a, b, alo, ahi, blo, bhi)
    IN  IF c = {} THEN <<alo, blo, 0>>
        ELSE CHOOSE t \in c :
                \A u \in c :
                    \/ u[3] < t[3]
                    \/ u[3] = t[3] /\ t[1] < u[1]
                    \/ u[3] = t[3] /\ t[1] = u[1] /\ t[2] <= u[2]

\* sum of the sizes of get_matching_blocks()
RECURSIVE Matches(_, _, _, _, _, _)
Matches(a, b, alo, ahi, blo, bhi) ==
    LET t == find_longest_match(a, b, alo, ahi, blo, bhi)
    IN  IF t[3] = 0 THEN 0
        ELSE t[3]
             + (IF alo < t[1] /\ blo < t[2]
                THEN Matches(a, b, alo, t[1], blo, t[2]) ELSE 0)
             + (IF t[1] + t[3] < ahi /\ t[2] + t[3] < bhi
                THEN Matches(a, b, t[1] + t[3], ahi, t[2] + t[3], bhi) ELSE 0)

\* slip: the ratio taken as M/T
similar_half(a, b, threshold) ==
    LET T == Len(a) + Len(b)
        M == Matches(a, b, 0, Len(a), 0, Len(b))
    IN  IF T = 0 THEN 100 >= threshold
        ELSE M * 100 >= threshold * T

\* slip: ratio() > threshold
similar_strict(a, b, threshold) ==
    LET T == Len(a) + Len(b)
        M == Matches(a, b, 0, Len(a), 0, Len(b))
    IN  IF T = 0 THEN 100 > threshold
        ELSE 2 * M * 100 > threshold * T

\* slip: the ratio of two empty strings taken as 0.0
similar_empty_zero(a, b, threshold) ==
    LET T == Len(a) + Len(b)
        M == Matches(a, b, 0, Len(a), 0, Len(b))
    IN  IF T = 0 THEN 0 >= threshold
        ELSE 2 * M * 100 >= threshold * T

\* ratio() >= threshold, with ratio = 2.0*M/T and 1.0 when T = 0
similar(a, b, threshold) ==
    LET T == Len(a) + Len(b)
        M == Matches(a, b, 0, Len(a), 0, Len(b))
    IN  IF T = 0 THEN 100 >= threshold
        ELSE 2 * M * 100 >= threshold * T

(***************************************************************************)
(* Dataframes are sequences of rows; a row is a record of its columns.     *)
(* ROW is a pass-through column that tells the input rows apart.           *)
(***************************************************************************)
Min(a, b) == IF a < b THEN a ELSE b

RagioneSociale(p) == IF p = "P1" THEN "ACME" ELSE "BETA"

InputRow(p, d, k) ==
    [P_IVA |-> p, RAGIONE_SOCIALE |-> RagioneSociale(p), DESCRIZIONE |-> d, ROW |-> k]

\* the dataframes of up to MaxRecords invoice lines taken from L
Frames(L) ==
    UNION {{[k \in 1..n |-> InputRow(f[k][1], f[k][2], k)] :
                f \in [1..n -> L]} : n \in 0..MaxRecords}

(***************************************************************************)
(* DataProcessor.sequential_cluster                                        *)
(***************************************************************************)
\* order of sort_values(by=["P_IVA", "DESCRIZIONE"])
RowLess(r, s) ==
    \/ PivaCode(r.P_IVA) < PivaCode(s.P_IVA)
    \/ /\ r.P_IVA = s.P_IVA
       /\ StrLess(Chars(r.DESCRIZIONE), Chars(s.DESCRIZIONE))

\* slip: an unstable sort, x goes before the rows that are equal to x
InsertRowBeforeEqual(sorted, x) ==
    LET notless == {k \in 1..Len(sorted) : ~RowLess(sorted[k], x)}
        at == IF notless = {} THEN Len(sorted) + 1
              ELSE CHOOSE k \in notless : \A m \in notless : k <= m
    IN  SubSeq(sorted, 1, at - 1) \o <<x>> \o SubSeq(sorted, at, Len(sorted))

\* x goes before the first row that is greater than x
InsertRow(sorted, x) ==
    LET greater == {k \in 1..Len(sorted) : RowLess(x, sorted[k])}
        at == IF greater = {} THEN Len(sorted) + 1
              ELSE CHOOSE k \in greater : \A m \in greater : k <= m
    IN  SubSeq(sorted, 1, at - 1) \o <<x>> \o SubSeq(sorted, at, Len(sorted))

\* the sort on several columns is stable
RECURSIVE sort_values(_)
sort_values(df) ==
    IF df = << >> THEN << >>
    ELSE InsertRow(sort_values(SubSeq(df, 1, Len(df) - 1)), df[Len(df)])

\* group.index of the group of supplier p in df.groupby("P_IVA")
group_index(df, p) ==
    LET members == {k \in 1..Len(df) : df[k].P_IVA = p}
        RECURSIVE Asc(_, _)
        Asc(k, acc) ==
            IF k > Len(df) THEN acc
            ELSE Asc(k + 1, IF k \in members THEN Append(acc, k) ELSE acc)
    IN  Asc(1, << >>)

\* slip: cluster_id = 0 set once, before the loop over the suppliers
RECURSIVE cluster_id_no_reset(_, _, _, _)
cluster_id_no_reset(df, g, k, threshold) ==
    IF k = 1
    THEN IF g[1] = 1 THEN 0
         ELSE LET h == group_index(df, df[g[1] - 1].P_IVA)
              IN  cluster_id_no_reset(df, h, Len(h), threshold)
    ELSE LET prev_desc == clean_text(Chars(df[g[k - 1]].DESCRIZIONE))
             current_desc == clean_text(Chars(df[g[k]].DESCRIZIONE))
         IN  IF similar(prev_desc, current_desc, threshold)
             THEN cluster_id_no_reset(df, g, k - 1, threshold)
             ELSE cluster_id_no_reset(df, g, k - 1, threshold) + 1

\* slip: cluster_id = 1 in place of cluster_id += 1
RECURSIVE cluster_id_set_one(_, _, _, _)
cluster_id_set_one(df, g, k, threshold) ==
    IF k = 1 THEN 0
    ELSE LET prev_desc == clean_text(Chars(df[g[k - 1]].DESCRIZIONE))
             current_desc == clean_text(Chars(df[g[k]].DESCRIZIONE))
         IN  IF similar(prev_desc, current_desc, threshold)
             THEN cluster_id_set_one(df, g, k - 1, threshold)
             ELSE 1

\* slip: the row is compared with the first row of the current cluster
cluster_id_vs_first(df, g, k, threshold) ==
    LET RECURSIVE Walk(_)
        Walk(m) ==
            IF m = 1 THEN <<0, 1>>
            ELSE LET w == Walk(m - 1)
                     first_desc == clean_text(Chars(df[g[w[2]]].DESCRIZIONE))
                     current_desc == clean_text(Chars(df[g[m]].DESCRIZIONE))
                 IN  IF similar(first_desc, current_desc, threshold) THEN w
                     ELSE <<w[1] + 1, m>>
    IN  Walk(k)[1]

\* cluster_id once the walk over group g has handled its k-th row
RECURSIVE cluster_id(_, _, _, _)
cluster_id(df, g, k, threshold) ==
    IF k = 1 THEN 0
    ELSE LET prev_desc == clean_text(Chars(df[g[k - 1]].DESCRIZIONE))
             current_desc == clean_text(Chars(df[g[k]].DESCRIZIONE))
         IN  IF similar(prev_desc, current_desc, threshold)
             THEN cluster_id(df, g, k - 1, threshold)
             ELSE cluster_id(df, g, k - 1, threshold) + 1

WithCluster(r, c) ==
    [P_IVA |-> r.P_IVA, RAGIONE_SOCIALE |-> r.RAGIONE_SOCIALE,
     DESCRIZIONE |-> r.DESCRIZIONE, ROW |-> r.ROW, cluster |-> c]

sequential_cluster(df, threshold) ==
    LET sorted == sort_values(df)
        groups == {sorted[k].P_IVA : k \in 1..Len(sorted)}
        clusterOf(i) ==
            IF sorted[i].P_IVA \in groups
            THEN LET g == group_index(sorted, sorted[i].P_IVA)
                     k == CHOOSE m \in 1..Len(g) : g[m] = i
                 IN  cluster_id(sorted, g, k, threshold)
            ELSE 0 - 1
    IN  [i \in 1..Len(sorted) |-> WithCluster(sorted[i], clusterOf(i))]

(***************************************************************************)
(* DataProcessor.representatives, DataProcessor.split_into_batches         *)
(***************************************************************************)
SameGroup(r, s) == r.P_IVA = s.P_IVA /\ r.cluster = s.cluster

\* slip: tail(1), the last row of each group
representatives_tail(df) ==
    LET last == {k \in 1..Len(df) :
                    \A m \in (k + 1)..Len(df) : ~SameGroup(df[m], df[k])}
        RECURSIVE Pick(_, _)
        Pick(k, acc) ==
            IF k > Len(df) THEN acc
            ELSE Pick(k + 1, IF k \in last THEN Append(acc, df[k]) ELSE acc)
    IN  Pick(1, << >>)

\* groupby(["P_IVA", "cluster"]).head(1), in the order of df
representatives(df) ==
    LET first == {k \in 1..Len(df) : \A m \in 1..(k - 1) : ~SameGroup(df[m], df[k])}
        RECURSIVE Pick(_, _)
        Pick(k, acc) ==
            IF k > Len(df) THEN acc
            ELSE Pick(k + 1, IF k \in first THEN Append(acc, df[k]) ELSE acc)
    IN  Pick(1, << >>)

\* slip: range(n // batch_size), the last partial batch is lost
split_without_rest(df, batch_size) ==
    LET n == Len(df)
    IN  [i \in 1..(n \div batch_size) |->
            SubSeq(df, (i - 1) * batch_size + 1, Min(i * batch_size, n))]

\* slip: range(n // batch_size + 1), an empty batch when batch_size divides n
split_with_extra(df, batch_size) ==
    LET n == Len(df)
    IN  [i \in 1..(n \div batch_size + 1) |->
            SubSeq(df, (i - 1) * batch_size + 1, Min(i * batch_size, n))]

split_into_batches(df, batch_size) ==
    LET n == Len(df)
    IN  [i \in 1..((n + batch_size - 1) \div batch_size) |->
            SubSeq(df, (i - 1) * batch_size + 1, Min(i * batch_size, n))]

(***************************************************************************)
(* The classification service seen through LLMClient.get_response: a call  *)
(* either raises or returns a validated, non-empty list of items.          *)
(***************************************************************************)
Items == [id : 0..MaxRespId, CATEGORIA : Cats]

Responses == UNION {[1..n -> Items] : n \in 1..MaxRespLen}

(***************************************************************************)
(* LLMClient.validate_response.  The parsed JSON of a raw response is a    *)
(* record: kind is its JSON type, entries its members when it is an        *)
(* object, items its elements when it is a list.  A member is absent, a    *)
(* number or a list.  An element of a list is a string or an object whose  *)
(* members id and CATEGORIA are absent or hold a JSON value, written as    *)
(* its JSON text.                                                          *)
(***************************************************************************)
Absent == "absent"

RecognizedKeys == <<"response", "data", "output", "results", "Response content">>

JsonKeys == {RecognizedKeys[k] : k \in 1..Len(RecognizedKeys)} \cup {"items"}

IdValues == {"0", "\"1\"", "\"abc\"", "null"}

CategoriaValues == {"\"Food\"", "null"}

Elements ==
    {[kind |-> "string", str |-> v, id |-> Absent, CATEGORIA |-> Absent] :
        v \in {"data", "x"}}
    \cup {[kind |-> "dict", str |-> Absent, id |-> i, CATEGORIA |-> c] :
            i \in IdValues \cup {Absent}, c \in CategoriaValues \cup {Absent}}

Lists == UNION {[1..n -> Elements] : n \in 0..MaxListLen}

AbsentSlot == [kind |-> "absent", items |-> << >>]
NumberSlot == [kind |-> "number", items |-> << >>]
ListSlot(l) == [kind |-> "list", items |-> l]

\* a list whose one element is valid
GoodList == <<[kind |-> "dict", str |-> Absent, id |-> "0", CATEGORIA |-> "\"Food\""]>>

NoEntries == [k \in JsonKeys |-> AbsentSlot]

JsonScalar(kind) == [kind |-> kind, entries |-> NoEntries, items |-> << >>]
JsonList(l) == [kind |-> "list", entries |-> NoEntries, items |-> l]
JsonDict(entries) == [kind |-> "dict", entries |-> entries, items |-> << >>]

\* an object with the one member k
OneMember(k, v) == JsonDict([NoEntries EXCEPT ![k] = v])

\* an object with the members response and data
TwoMembers(v, w) == JsonDict([NoEntries EXCEPT !["response"] = v, !["data"] = w])

SmallSlots == {NumberSlot, ListSlot(<< >>), ListSlot(GoodList)}

\* key in result
KeyIn(key, result) ==
    IF result.kind = "dict" THEN result.entries[key].kind # "absent"
    ELSE \E k \in 1..Len(result.items) :
            result.items[k].kind = "string" /\ result.items[k].str = key

\* 'id' in item and 'CATEGORIA' in item, for a dict
HasBoth(item) == item.id # Absent /\ item.CATEGORIA # Absent

\* int(v): the exception it raises, "none" when it returns
IntError(v) ==
    CASE v = "\"abc\"" -> "ValueError"
      [] v = "null" -> "TypeError"
      [] OTHER -> "none"

IntOf(v) == CASE v = "0" -> 0 [] v = "\"1\"" -> 1

\* str(v)
StrOf(v) == CASE v = "\"Food\"" -> "Food" [] v = "null" -> "None"

\* slip: no break, the last recognized key that holds a list is taken
RECURSIVE LocateLast(_, _)
LocateLast(result, k) ==
    IF k > Len(RecognizedKeys) THEN [raised |-> "none", found |-> FALSE, data |-> << >>]
    ELSE IF KeyIn(RecognizedKeys[k], result)
         THEN IF result.kind = "list"
              THEN [raised |-> "TypeError", found |-> FALSE, data |-> << >>]
              ELSE LET later == LocateLast(result, k + 1)
                   IN  IF later.found \/ result.entries[RecognizedKeys[k]].kind # "list"
                       THEN later
                       ELSE [raised |-> "none", found |-> TRUE,
                             data |-> result.entries[RecognizedKeys[k]].items]
         ELSE LocateLast(result, k + 1)

\* the loop over the recognized keys, from the k-th key on: result[key] of
\* a list raises TypeError; the first key that holds a list is taken
RECURSIVE Locate(_, _)
Locate(result, k) ==
    IF k > Len(RecognizedKeys) THEN [raised |-> "none", found |-> FALSE, data |-> << >>]
    ELSE IF KeyIn(RecognizedKeys[k], result)
         THEN IF result.kind = "list"
              THEN [raised |-> "TypeError", found |-> FALSE, data |-> << >>]
              ELSE IF result.entries[RecognizedKeys[k]].kind = "list"
                   THEN [raised |-> "none", found |-> TRUE,
                         data |-> result.entries[RecognizedKeys[k]].items]
                   ELSE Locate(result, k + 1)
         ELSE Locate(result, k + 1)

\* the loop over response_data: the items appended so far, or the exception
\* of the first int() that fails
RECURSIVE ValidateItems(_, _)
ValidateItems(response_data, acc) ==
    IF response_data = << >> THEN [raised |-> "none", items |-> acc]
    ELSE LET item == Head(response_data)
         IN  IF item.kind # "dict" \/ ~HasBoth(item)
             THEN ValidateItems(Tail(response_data), acc)
             ELSE IF IntError(item.id) # "none"
                  THEN [raised |-> IntError(item.id), items |-> << >>]
                  ELSE ValidateItems(Tail(response_data),
                            Append(acc, [id |-> IntOf(item.id),
                                         CATEGORIA |-> StrOf(item.CATEGORIA)]))

Raise(e) == [raised |-> e, items |-> << >>]

validate_response(result) ==
    IF result.kind \notin {"dict", "list"} THEN Raise("ValueError")
    ELSE LET loc == Locate(result, 1)
         IN  IF loc.raised # "none" THEN Raise(loc.raised)
             ELSE IF ~loc.found
                     /\ ~(/\ result.kind = "list"
                          /\ \A k \in 1..Len(result.items) :
                                /\ result.items[k].kind = "dict"
                                /\ HasBoth(result.items[k]))
                  THEN Raise("ValueError")
                  ELSE LET response_data == IF loc.found THEN loc.data ELSE result.items
                           v == ValidateItems(response_data, << >>)
                       IN  IF v.raised = "none" /\ v.items = << >>
                           THEN Raise("ValueError")
                           ELSE v

\* LLMClient.create_user_prompt: one line per row of the batch
create_user_prompt(batch) ==
    [k \in 1..Len(batch) |->
        <<batch[k].id, batch[k].RAGIONE_SOCIALE, batch[k].DESCRIZIONE>>]

\* batch.loc[item['id'], 'CATEGORIA'] = item['CATEGORIA']: sets the cell of
\* the row labelled id, and appends a row of missing values when no row of
\* the batch has that label
SetCategoria(r, c) ==
    [id |-> r.id, P_IVA |-> r.P_IVA, RAGIONE_SOCIALE |-> r.RAGIONE_SOCIALE,
     DESCRIZIONE |-> r.DESCRIZIONE, ROW |-> r.ROW, cluster |-> r.cluster,
     CATEGORIA |-> c]

EnlargedRow(id, c) ==
    [id |-> id, P_IVA |-> NaN, RAGIONE_SOCIALE |-> NaN, DESCRIZIONE |-> NaN,
     ROW |-> NaNNumber, cluster |-> NaNNumber, CATEGORIA |-> c]

\* slip: the assignment lands on a copy of the batch and is lost
loc_set_on_copy(batch, item) == batch

loc_set(batch, item) ==
    IF \E k \in 1..Len(batch) : batch[k].id = item.id
    THEN [k \in 1..Len(batch) |->
            IF batch[k].id = item.id
            THEN SetCategoria(batch[k], item.CATEGORIA) ELSE batch[k]]
    ELSE Append(batch, EnlargedRow(item.id, item.CATEGORIA))

\* slip: batch['CATEGORIA'] = item['CATEGORIA'], the whole column is set
RECURSIVE apply_response_column(_, _)
apply_response_column(batch, response) ==
    IF response = << >> THEN batch
    ELSE apply_response_column(
            [k \in 1..Len(batch) |-> SetCategoria(batch[k], Head(response).CATEGORIA)],
            Tail(response))

\* for item in response: batch.loc[...] = ...
RECURSIVE apply_response(_, _)
apply_response(batch, response) ==
    IF response = << >> THEN batch
    ELSE apply_response(loc_set(batch, Head(response)), Tail(response))

(***************************************************************************)
(* Merges of pandas.                                                       *)
(***************************************************************************)
\* slip: on=["cluster"]
MergeKeyEqClusterOnly(l, r) == l.cluster = r.cluster

\* on=["P_IVA", "cluster"]
MergeKeyEq(l, r) == l.P_IVA = r.P_IVA /\ l.cluster = r.cluster

\* the CATEGORIA values that a how="left" merge pairs with the left row l,
\* in the order of the right frame; one missing value when no row matches
RightMatches(l, right) ==
    LET RECURSIVE Scan(_, _)
        Scan(k, acc) ==
            IF k > Len(right) THEN acc
            ELSE Scan(k + 1, IF MergeKeyEq(l, right[k])
                             THEN Append(acc, right[k].CATEGORIA) ELSE acc)
        found == Scan(1, << >>)
    IN  IF found = << >> THEN <<NaN>> ELSE found

\* np.where(CATEGORIA_new.notna(), CATEGORIA_new, CATEGORIA)
Coalesce(new, old) == IF new # NaN THEN new ELSE old

\* slip: the merge is on the row identifier
RECURSIVE merge_new_by_id(_, _)
merge_new_by_id(left, right) ==
    IF left = << >> THEN << >>
    ELSE LET l == Head(left)
             same == SelectSeq(right, LAMBDA r : r.id = l.id)
             m == IF same = << >> THEN <<NaN>>
                  ELSE [k \in 1..Len(same) |-> same[k].CATEGORIA]
         IN  [k \in 1..Len(m) |-> SetCategoria(l, Coalesce(m[k], l.CATEGORIA))]
             \o merge_new_by_id(Tail(left), right)

\* categorize_invoices: merge of all_processed onto categorized_fatture,
\* then np.where and the drop of CATEGORIA_new
RECURSIVE merge_new(_, _)
merge_new(left, right) ==
    IF left = << >> THEN << >>
    ELSE LET l == Head(left)
             m == RightMatches(l, right)
         IN  [k \in 1..Len(m) |-> SetCategoria(l, Coalesce(m[k], l.CATEGORIA))]
             \o merge_new(Tail(left), right)

\* slip: the cluster column is not dropped
OutputRowWithCluster(l, c) ==
    [P_IVA |-> l.P_IVA, RAGIONE_SOCIALE |-> l.RAGIONE_SOCIALE,
     DESCRIZIONE |-> l.DESCRIZIONE, ROW |-> l.ROW, cluster |-> l.cluster,
     CATEGORIA |-> c]

\* categorize_and_return_to_jump: merge of the categorised representatives
\* onto clustered_fatture, then the drop of the cluster column
OutputRow(l, c) ==
    [P_IVA |-> l.P_IVA, RAGIONE_SOCIALE |-> l.RAGIONE_SOCIALE,
     DESCRIZIONE |-> l.DESCRIZIONE, ROW |-> l.ROW, CATEGORIA |-> c]

RECURSIVE merge_propagate(_, _)
merge_propagate(left, right) ==
    IF left = << >> THEN << >>
    ELSE LET l == Head(left)
             m == RightMatches(l, right)
         IN  [k \in 1..Len(m) |-> OutputRow(l, m[k])]
             \o merge_propagate(Tail(left), right)

\* pd.concat([results[i] for i in sorted(results.keys())], ignore_index=True)
RECURSIVE concat_sorted(_, _)
concat_sorted(res, keys) ==
    IF keys = {} THEN << >>
    ELSE LET i == CHOOSE k \in keys : \A m \in keys : k <= m
         IN  res[i] \o concat_sorted(res, keys \ {i})

(***************************************************************************)
(* lambda_handler and identify_trigger.  An event is a record that tells,  *)
(* for each key the code looks at, whether the event has it and what it    *)
(* holds: requestContext is absent or an object with or without apiId;     *)
(* Records is absent, an empty list, or a list whose first record has the  *)
(* key s3, the key Sns or neither; body is absent or an object with the    *)
(* keys named.                                                             *)
(***************************************************************************)
Events ==
    [httpMethod : BOOLEAN,
     requestContext : {Absent, "apiId", "no apiId"},
     Records : {Absent, "empty", "s3", "Sns", "other"},
     trigger_source : {Absent, "jump", "s3", "custom"},
     headers : BOOLEAN,
     body : {Absent, "destination and source", "destination", "source", "neither"}]

Returns(v) == [raised |-> "none", value |-> v]

\* slip: 'requestContext' in event is enough for api_gateway
identify_trigger_any_context(e) ==
    IF e.httpMethod \/ e.requestContext # Absent THEN Returns("api_gateway")
    ELSE IF e.Records # Absent
    THEN IF e.Records = "empty" THEN [raised |-> "IndexError", value |-> "none"]
         ELSE IF e.Records = "s3" THEN Returns("s3")
         ELSE IF e.Records = "Sns" THEN Returns("sns")
         ELSE Returns("unknown")
    ELSE IF e.trigger_source # Absent THEN Returns(e.trigger_source)
    ELSE IF e.headers /\ e.body # Absent /\ e.body = "destination and source"
    THEN Returns("jump")
    ELSE Returns("unknown")

\* event['Records'][0] of an empty list raises IndexError
identify_trigger(e) ==
    IF e.httpMethod \/ e.requestContext = "apiId" THEN Returns("api_gateway")
    ELSE IF e.Records # Absent
    THEN IF e.Records = "empty" THEN [raised |-> "IndexError", value |-> "none"]
         ELSE IF e.Records = "s3" THEN Returns("s3")
         ELSE IF e.Records = "Sns" THEN Returns("sns")
         ELSE Returns("unknown")
    ELSE IF e.trigger_source # Absent THEN Returns(e.trigger_source)
    ELSE IF e.headers /\ e.body # Absent /\ e.body = "destination and source"
    THEN Returns("jump")
    ELSE Returns("unknown")

\* the handler that lambda_handler calls for a trigger source
handler_of(source) ==
    IF source = "api_gateway" THEN "handle_api_gateway"
    ELSE IF source = "s3" THEN "handle_s3"
    ELSE IF source = "jump" THEN "handle_jump"
    ELSE "handle_unknown"

(***************************************************************************)
(* CompanyCache.  The cache maps a company to its dict, which is modelled  *)
(* as the sequence of its (description, category) items in insertion order.*)
(***************************************************************************)
Companies == {RagioneSociale(PIVAs[k]) : k \in 1..Len(PIVAs)}

Descriptions == {"buy bread", "buy bred", "pay rent"}

\* threshold=0.8 of _find_similar_description
CacheThresholdPct == 80

None == "None"

\* the position of description among the items of a dict, 0 if it is no key
KeyIndex(items, description) ==
    LET at == {k \in 1..Len(items) : items[k].description = description}
    IN  IF at = {} THEN 0 ELSE CHOOSE k \in at : TRUE

get_category(c, company, description) ==
    IF company \in DOMAIN c /\ KeyIndex(c[company], description) # 0
    THEN c[company][KeyIndex(c[company], description)].category
    ELSE None

\* self.cache[company][description] = category, on a defaultdict(dict)
set_category(c, company, description, category) ==
    LET items == IF company \in DOMAIN c THEN c[company] ELSE << >>
        item == [description |-> description, category |-> category]
        at == KeyIndex(items, description)
        updated == IF at = 0 THEN Append(items, item)
                   ELSE [items EXCEPT ![at] = item]
    IN  [k \in (DOMAIN c) \cup {company} |-> IF k = company THEN updated ELSE c[k]]

\* the first cached description that is similar to description, or None
find_similar_description(description, description_set, threshold) ==
    LET at == {k \in 1..Len(description_set) :
                    similar(clean_text(Chars(description)),
                            clean_text(Chars(description_set[k])), threshold)}
    IN  IF at = {} THEN None
        ELSE description_set[CHOOSE k \in at : \A m \in at : k <= m]

has_category(c, company, description) ==
    IF company \notin DOMAIN c THEN FALSE
    ELSE IF KeyIndex(c[company], description) # 0 THEN TRUE
    ELSE IF c[company] # << >>
    THEN LET cached_descriptions ==
                [k \in 1..Len(c[company]) |-> c[company][k].description]
         IN  find_similar_description(description, cached_descriptions,
                                      CacheThresholdPct) # None
    ELSE FALSE

(***************************************************************************)
(* State.                                                                  *)
(***************************************************************************)
VARIABLES
    pc,                  \* position of categorize_and_return_to_jump
    df,                  \* the dataframe read from storage
    threshold,           \* similarity threshold of the run, in hundredths
    clustered_fatture,   \* sequential_cluster(df)
    reduced_row,         \* representatives(clustered_fatture)
    categorized_fatture, \* the frame categorize_invoices works on
    batches,             \* the batches; batches[i + 1] is the batch of index i
    started,             \* number of worker threads started
    thread,              \* per batch index: the worker running process_batch
    results,             \* the dict shared by the workers
    all_processed,       \* value returned by process_batches_in_parallel
    exc,                 \* exception raised to categorize_and_return_to_jump
    result,              \* value returned by categorize_and_return_to_jump
    batch_size,          \* batch_size of categorize_invoices
    text,                \* argument of clean_text
    cleaned,             \* value returned by clean_text
    parsed,              \* json.loads(response_content) in validate_response
    validated_items,     \* value returned by validate_response
    raised,              \* exception raised by validate_response
    event,               \* the event given to lambda_handler
    trigger_source,      \* value returned by identify_trigger
    handler,             \* the handlers that lambda_handler has called
    cache,               \* CompanyCache.cache: company -> {description: category}
    lookup               \* the last has_category and get_category and their values

\* the arguments and results of the functions that are run on their own
lambda_vars == <<event, trigger_source, handler>>

cache_vars == <<cache, lookup>>

pure == <<text, cleaned, parsed, validated_items, raised, lambda_vars, cache_vars>>

vars == <<pc, df, threshold, clustered_fatture, reduced_row, categorized_fatture, batches,
          started, thread, results, all_processed, exc, result, batch_size, pure>>

\* lambda_handler has not been called
LambdaIdle ==
    /\ event = "none"
    /\ trigger_source = "none"
    /\ handler = << >>

\* no CompanyCache has been made
CacheIdle ==
    /\ cache = << >>
    /\ lookup = << >>

\* no function has been run on its own
PureIdle ==
    /\ text = << >>
    /\ cleaned = << >>
    /\ parsed = "none"
    /\ validated_items = << >>
    /\ raised = "none"
    /\ LambdaIdle
    /\ CacheIdle

\* the state at the entry of categorize_and_return_to_jump, for a dataframe
\* of frames, a threshold of thresholds and a batch size of sizes
InitWith(frames, thresholds, sizes) ==
    /\ pc = "read"
    /\ df \in frames
    /\ threshold \in thresholds
    /\ batch_size \in sizes
    /\ PureIdle
    /\ clustered_fatture = << >>
    /\ reduced_row = << >>
    /\ categorized_fatture = << >>
    /\ batches = << >>
    /\ started = 0
    /\ thread = << >>
    /\ results = << >>
    /\ all_processed = << >>
    /\ exc = "none"
    /\ result = << >>

\* dp.sequential_cluster(df, threshold=0.8)
Init == InitWith(Frames(Lines), {ThresholdPct}, {BATCH_SIZE})

(***************************************************************************)
(* categorize_and_return_to_jump, up to the call of categorize_invoices    *)
(***************************************************************************)
SequentialCluster ==
    /\ pc = "read"
    /\ clustered_fatture' = sequential_cluster(df, threshold)
    /\ pc' = "clustered"
    /\ UNCHANGED <<df, threshold, batch_size, pure, reduced_row, categorized_fatture, batches, started,
                   thread, results, all_processed, exc, result>>

Representatives ==
    /\ pc = "clustered"
    /\ reduced_row' = representatives(clustered_fatture)
    /\ pc' = "reps"
    /\ UNCHANGED <<df, threshold, batch_size, pure, clustered_fatture, categorized_fatture, batches, started,
                   thread, results, all_processed, exc, result>>

(***************************************************************************)
(* categorize_invoices, up to the call of process_batches_in_parallel      *)
(***************************************************************************)
\* processed_fatture.copy() with CATEGORIA = 'No categorizzato'; id is the
\* index label of the row
WithSentinel(df0) ==
    [k \in 1..Len(df0) |->
        [id |-> k - 1, P_IVA |-> df0[k].P_IVA,
         RAGIONE_SOCIALE |-> df0[k].RAGIONE_SOCIALE,
         DESCRIZIONE |-> df0[k].DESCRIZIONE, ROW |-> df0[k].ROW,
         cluster |-> df0[k].cluster, CATEGORIA |-> Sentinel]]

IsSentinel(r) == r.CATEGORIA = Sentinel

CategorizeInvoices ==
    /\ pc = "reps"
    /\ LET cf == WithSentinel(reduced_row)
           not_categorized == SelectSeq(cf, IsSentinel)
       IN  /\ categorized_fatture' = cf
           /\ IF Len(not_categorized) > 0
              THEN /\ batches' = split_into_batches(not_categorized, batch_size)
                   /\ pc' = "threads"
              ELSE /\ batches' = batches
                   /\ pc' = "categorized"
    /\ UNCHANGED <<df, threshold, batch_size, pure, clustered_fatture, reduced_row, started, thread,
                   results, all_processed, exc, result>>

(***************************************************************************)
(* process_batches_in_parallel and its workers                             *)
(***************************************************************************)
\* t = threading.Thread(target=worker, args=(batch, idx)); t.start()
\* The started worker enters process_batch and builds its prompt.
StartThread ==
    /\ pc = "threads"
    /\ started < Len(batches)
    /\ thread' = Append(thread,
            [state |-> "running", tries |-> LLM_Tries, calls |-> 0,
             user_prompt |-> create_user_prompt(batches[started + 1]),
             sent |-> {}, response |-> << >>, raised |-> 0])
    /\ started' = started + 1
    /\ UNCHANGED <<pc, df, threshold, batch_size, pure, clustered_fatture, reduced_row, categorized_fatture,
                   batches, results, all_processed, exc, result>>

\* slip: results = {idx: updated}
store_result_alone(res, idx, updated) == [k \in {idx} |-> updated]

\* results[idx] = updated
store_result(res, idx, updated) ==
    [k \in (DOMAIN res) \cup {idx} |-> IF k = idx THEN updated ELSE res[k]]

\* the error that the n-th call of a worker raises when it fails
ErrorOf(n) == n

\* slip: the loop gives up while one try is left
OutOfTriesEarly(tries) == tries <= 1

\* if tries == 0: raise e
OutOfTries(tries) == tries = 0

\* worker of batch i: llm_client.get_response raises
GetResponseFail(i) ==
    /\ i \in 0..(started - 1)
    /\ thread[i + 1].state = "running"
    /\ LET t == thread[i + 1]
           e == ErrorOf(t.calls + 1)
           tries == t.tries - 1
       IN  thread' = [thread EXCEPT ![i + 1] =
                [state |-> IF OutOfTries(tries) THEN "dead" ELSE "running",
                 tries |-> tries,
                 calls |-> t.calls + 1,
                 user_prompt |-> t.user_prompt,
                 sent |-> t.sent \cup {<<t.user_prompt, SYSTEM_PROMPT>>},
                 response |-> << >>,
                 raised |-> IF OutOfTries(tries) THEN e ELSE 0]]
    /\ UNCHANGED <<pc, df, threshold, batch_size, pure, clustered_fatture, reduced_row, categorized_fatture,
                   batches, started, results, all_processed, exc, result>>

\* worker of batch i: llm_client.get_response returns response; the batch is
\* updated and stored in results[idx]
GetResponseOk(i, response) ==
    /\ i \in 0..(started - 1)
    /\ thread[i + 1].state = "running"
    /\ LET t == thread[i + 1]
           updated == apply_response(batches[i + 1], response)
       IN  /\ thread' = [thread EXCEPT ![i + 1] =
                    [state |-> "done", tries |-> t.tries,
                     calls |-> t.calls + 1,
                     user_prompt |-> t.user_prompt,
                     sent |-> t.sent \cup {<<t.user_prompt, SYSTEM_PROMPT>>},
                     response |-> response, raised |-> 0]]
           /\ batches' = [batches EXCEPT ![i + 1] = updated]
           /\ results' = store_result(results, i, updated)
    /\ UNCHANGED <<pc, df, threshold, batch_size, pure, clustered_fatture, reduced_row, categorized_fatture,
                   started, all_processed, exc, result>>

Terminated(i) == thread[i + 1].state \in {"done", "dead"}

\* for t in threads: t.join(); assert results; pd.concat(...)
\* The threads, the results dict and the loop counter are locals of
\* process_batches_in_parallel: they are gone once it returns or raises.
\* slip: the loop of t.join() is left out
JoinThreadsNoWait ==
    /\ pc = "threads"
    /\ started = Len(batches)
    /\ IF DOMAIN results = {}
       THEN /\ exc' = "AssertionError"
            /\ pc' = "except"
            /\ UNCHANGED all_processed
       ELSE /\ all_processed' = concat_sorted(results, DOMAIN results)
            /\ pc' = "processed"
            /\ UNCHANGED exc
    /\ thread' = << >>
    /\ results' = << >>
    /\ started' = 0
    /\ UNCHANGED <<df, threshold, batch_size, pure, clustered_fatture, reduced_row,
                   categorized_fatture, batches, result>>

\* slip: assert results is left out
JoinThreadsNoAssert ==
    /\ pc = "threads"
    /\ started = Len(batches)
    /\ \A i \in 0..(started - 1) : Terminated(i)
    /\ all_processed' = concat_sorted(results, DOMAIN results)
    /\ pc' = "processed"
    /\ thread' = << >>
    /\ results' = << >>
    /\ started' = 0
    /\ UNCHANGED <<df, threshold, batch_size, pure, clustered_fatture, reduced_row,
                   categorized_fatture, batches, exc, result>>

JoinThreads ==
    /\ pc = "threads"
    /\ started = Len(batches)
    /\ \A i \in 0..(started - 1) : Terminated(i)
    /\ IF DOMAIN results = {}
       THEN /\ exc' = "AssertionError"
            /\ pc' = "except"
            /\ UNCHANGED all_processed
       ELSE /\ all_processed' = concat_sorted(results, DOMAIN results)
            /\ pc' = "processed"
            /\ UNCHANGED exc
    /\ thread' = << >>
    /\ results' = << >>
    /\ started' = 0
    /\ UNCHANGED <<df, threshold, batch_size, pure, clustered_fatture, reduced_row,
                   categorized_fatture, batches, result>>

(***************************************************************************)
(* categorize_invoices, after process_batches_in_parallel                  *)
(***************************************************************************)
\* slip: the completeness check is left out
IncompleteNever(cf) == FALSE

\* raise ValueError("Some items were not categorized after LLM processing.")
Incomplete(cf) == \E k \in 1..Len(cf) : IsSentinel(cf[k])

MergeCategories ==
    /\ pc = "processed"
    /\ LET cf == merge_new(categorized_fatture, all_processed)
       IN  /\ categorized_fatture' = cf
           /\ IF Incomplete(cf)
              THEN exc' = "ValueError" /\ pc' = "except"
              ELSE exc' = exc /\ pc' = "categorized"
    /\ UNCHANGED <<df, threshold, batch_size, pure, clustered_fatture, reduced_row, batches,
                   started, thread, results, all_processed, result>>

(***************************************************************************)
(* categorize_and_return_to_jump, after categorize_invoices                *)
(***************************************************************************)
\* slip: the handler answers with statusCode 200
HandleExceptionOk ==
    /\ pc = "except"
    /\ result' = [statusCode |-> 200, body |-> "Error occurred while processing"]
    /\ pc' = "failed"
    /\ UNCHANGED <<df, threshold, batch_size, pure, clustered_fatture, reduced_row,
                   categorized_fatture, batches, started, thread, results,
                   all_processed, exc>>

\* except Exception: return {"statusCode": 500, ...}
HandleException ==
    /\ pc = "except"
    /\ result' = [statusCode |-> 500, body |-> "Error occurred while processing"]
    /\ pc' = "failed"
    /\ UNCHANGED <<df, threshold, batch_size, pure, clustered_fatture, reduced_row, categorized_fatture,
                   batches, started, thread, results, all_processed, exc>>

\* reduced_row_categ = categorized_fatture; merge, drop of cluster, to_dict
PropagateCategories ==
    /\ pc = "categorized"
    /\ result' = merge_propagate(clustered_fatture, categorized_fatture)
    /\ pc' = "done"
    /\ UNCHANGED <<df, threshold, batch_size, pure, clustered_fatture, reduced_row, categorized_fatture,
                   batches, started, thread, results, all_processed, exc>>

Next ==
    \/ SequentialCluster
    \/ Representatives
    \/ CategorizeInvoices
    \/ StartThread
    \/ \E i \in 0..(MaxRecords - 1) : GetResponseFail(i)
    \/ \E i \in 0..(MaxRecords - 1) : \E response \in Responses :
            GetResponseOk(i, response)
    \/ JoinThreads
    \/ MergeCategories
    \/ HandleException
    \/ PropagateCategories

Spec == Init /\ [][Next]_vars

(***************************************************************************)
(* split_into_batches on its own, for every batch size up to MaxBatchSize  *)
(* and every number of representatives, none included.                     *)
(***************************************************************************)
SplitIntoBatches ==
    /\ pc = "reps"
    /\ batches' = split_into_batches(WithSentinel(reduced_row), batch_size)
    /\ pc' = "split"
    /\ UNCHANGED <<df, threshold, batch_size, pure, clustered_fatture, reduced_row,
                   categorized_fatture, started, thread, results, all_processed,
                   exc, result>>

(***************************************************************************)
(* clean_text on its own, on every text of up to MaxTextLen characters of  *)
(* Alphabet, and once more on what it returned.                            *)
(***************************************************************************)
Alphabet ==
    {"a", "b", "B", " ", "\t", ".", "1",
     "U+00A0", "U+00C9", "U+00E9", "U+0130", "U+212A"}

Texts == UNION {[1..n -> Alphabet] : n \in 0..MaxTextLen}

CleanText ==
    /\ pc = "text"
    /\ cleaned' = <<clean_text(text)>>
    /\ pc' = "cleaned"
    /\ UNCHANGED <<df, threshold, batch_size, clustered_fatture, reduced_row,
                   categorized_fatture, batches, started, thread, results,
                   all_processed, exc, result, text, parsed, validated_items, raised,
                   lambda_vars, cache_vars>>

CleanTextAgain ==
    /\ pc = "cleaned"
    /\ cleaned' = Append(cleaned, clean_text(cleaned[1]))
    /\ pc' = "recleaned"
    /\ UNCHANGED <<df, threshold, batch_size, clustered_fatture, reduced_row,
                   categorized_fatture, batches, started, thread, results,
                   all_processed, exc, result, text, parsed, validated_items, raised,
                   lambda_vars, cache_vars>>

(***************************************************************************)
(* validate_response on its own: on a scalar, on every list of Lists, on   *)
(* objects with one member and on objects with the members response and    *)
(* data.                                                                   *)
(***************************************************************************)
ValidateResponse ==
    /\ pc = "parsed"
    /\ LET v == validate_response(parsed)
       IN  /\ validated_items' = v.items
           /\ raised' = v.raised
    /\ pc' = "validated"
    /\ UNCHANGED <<df, threshold, batch_size, clustered_fatture, reduced_row,
                   categorized_fatture, batches, started, thread, results,
                   all_processed, exc, result, text, cleaned, parsed,
                   lambda_vars, cache_vars>>

(***************************************************************************)
(* lambda_handler on its own, on every event of Events.                    *)
(***************************************************************************)
\* trigger_source = identify_trigger(event)
IdentifyTrigger ==
    /\ pc = "event"
    /\ LET r == identify_trigger(event)
       IN  IF r.raised # "none"
           THEN /\ exc' = r.raised
                /\ pc' = "crashed"
                /\ UNCHANGED trigger_source
           ELSE /\ trigger_source' = r.value
                /\ pc' = "identified"
                /\ UNCHANGED exc
    /\ UNCHANGED <<df, threshold, batch_size, clustered_fatture, reduced_row,
                   categorized_fatture, batches, started, thread, results,
                   all_processed, result, text, cleaned, parsed, validated_items,
                   raised, event, handler, cache_vars>>

\* the if/elif chain of lambda_handler
RouteEvent ==
    /\ pc = "identified"
    /\ handler' = Append(handler, handler_of(trigger_source))
    /\ pc' = "routed"
    /\ UNCHANGED <<df, threshold, batch_size, clustered_fatture, reduced_row,
                   categorized_fatture, batches, started, thread, results,
                   all_processed, exc, result, text, cleaned, parsed,
                   validated_items, raised, event, trigger_source, cache_vars>>

(***************************************************************************)
(* The dispatch under fair scheduling.  The main thread runs on (its loop  *)
(* of start() and its joins are taken when they can be), every started     *)
(* thread is scheduled, and every call of the service returns, with a      *)
(* response or with an error.  The responses are those of one pair.        *)
(***************************************************************************)
DispatchLines == {<<PIVAs[1], d>> : d \in {"buy bread", "pay rent"}}

DispatchResponses == {r \in Responses : Len(r) = 1}

InitDispatch == InitWith(Frames(DispatchLines), {ThresholdPct}, {1, BATCH_SIZE})

\* a step of the worker of batch i
Worker(i) ==
    \/ GetResponseFail(i)
    \/ \E response \in DispatchResponses : GetResponseOk(i, response)

NextDispatch ==
    \/ SequentialCluster
    \/ Representatives
    \/ CategorizeInvoices
    \/ StartThread
    \/ \E i \in 0..(MaxRecords - 1) : Worker(i)
    \/ JoinThreads
    \/ MergeCategories
    \/ HandleException
    \/ PropagateCategories

SpecDispatch ==
    /\ InitDispatch
    /\ [][NextDispatch]_vars
    /\ WF_vars(StartThread)
    /\ \A i \in 0..(MaxRecords - 1) : WF_vars(Worker(i))
    /\ WF_vars(JoinThreads)

(***************************************************************************)
(* The dispatch of up to two batches, with responses that name the         *)
(* identifiers that a frame of DispatchLines can give, the other batch's   *)
(* included, with no more pairs than identifiers.                          *)
(***************************************************************************)
BatchResponses ==
    {r \in Responses :
        /\ Len(r) <= Cardinality(DispatchLines)
        /\ \A j \in 1..Len(r) : r[j].id < Cardinality(DispatchLines)}

NextBatches ==
    \/ SequentialCluster
    \/ Representatives
    \/ CategorizeInvoices
    \/ StartThread
    \/ \E i \in 0..(MaxRecords - 1) : GetResponseFail(i)
    \/ \E i \in 0..(MaxRecords - 1) : \E response \in BatchResponses :
            GetResponseOk(i, response)
    \/ JoinThreads
    \/ MergeCategories
    \/ HandleException
    \/ PropagateCategories

SpecBatches == InitDispatch /\ [][NextBatches]_vars

(***************************************************************************)
(* The clustering alone, on a wider range of descriptions and thresholds.  *)
(***************************************************************************)
ClusterLines ==
    {<<PIVAs[k], d>> : k \in 1..Len(PIVAs),
                       d \in {"buy bread", "buy bred", "pay rent", "Pay rent", "12", "3.4"}}

Thresholds == {50, 80, 100}

InitCluster == InitWith(Frames(ClusterLines), Thresholds, {BATCH_SIZE})

NextCluster == SequentialCluster \/ Representatives

SpecCluster == InitCluster /\ [][NextCluster]_vars

\* two suppliers with near-duplicate, equivalent and unrelated descriptions
WalkLines ==
    {<<PIVAs[k], d>> : k \in 1..Len(PIVAs),
                       d \in {"Pay rent", "buy bread", "buy bred", "pay rent"}}

InitWalk == InitWith(Frames(WalkLines), Thresholds, {BATCH_SIZE})

SpecWalk == InitWalk /\ [][NextCluster]_vars

\* the whole pipeline on descriptions without a letter, one representative
\* per batch
DigitLines == {<<PIVAs[1], d>> : d \in {"12", "3.4", "pay rent"}}

InitDigits == InitWith(Frames(DigitLines), Thresholds, {1})

\* the responses of one pair
DigitResponses == {r \in Responses : Len(r) = 1}

NextDigits ==
    \/ SequentialCluster
    \/ Representatives
    \/ CategorizeInvoices
    \/ StartThread
    \/ \E i \in 0..(MaxRecords - 1) : GetResponseFail(i)
    \/ \E i \in 0..(MaxRecords - 1) : \E response \in DigitResponses :
            GetResponseOk(i, response)
    \/ JoinThreads
    \/ MergeCategories
    \/ HandleException
    \/ PropagateCategories

SpecDigits == InitDigits /\ [][NextDigits]_vars

\* one supplier whose descriptions, in sort order, are each similar at 0.5
\* to the next one: bp, ba, da, dp, bp after clean_text, behind "12"
ChainLines ==
    {<<PIVAs[1], d>> : d \in {"12", "Bp", "ba", "da", "dp", "<U+00E9>bp"}}

\* the dataframes that hold each line of L at most once, in any order
FramesOnce(L) ==
    UNION {{[k \in 1..n |-> InputRow(f[k][1], f[k][2], k)] :
                f \in {h \in [1..n -> L] : \A i, j \in 1..n : i # j => h[i] # h[j]}} :
           n \in 0..Cardinality(L)}

InitChain == InitWith(FramesOnce(ChainLines), Thresholds, {BATCH_SIZE})

SpecChain == InitChain /\ [][NextCluster]_vars

\* invoice lines that give up to one representative per record
SplitLines == {<<PIVAs[k], d>> : k \in 1..Len(PIVAs), d \in {"buy bread", "pay rent"}}

InitSplit == InitWith(Frames(SplitLines), {ThresholdPct}, 1..MaxBatchSize)

NextSplit == SequentialCluster \/ Representatives \/ SplitIntoBatches

SpecSplit == InitSplit /\ [][NextSplit]_vars

\* no pipeline is running
PipelineIdle ==
    /\ df = << >>
    /\ threshold = ThresholdPct
    /\ batch_size = BATCH_SIZE
    /\ clustered_fatture = << >>
    /\ reduced_row = << >>
    /\ categorized_fatture = << >>
    /\ batches = << >>
    /\ started = 0
    /\ thread = << >>
    /\ results = << >>
    /\ all_processed = << >>
    /\ exc = "none"
    /\ result = << >>

InitText ==
    /\ pc = "text"
    /\ PipelineIdle
    /\ text \in Texts
    /\ cleaned = << >>
    /\ parsed = "none"
    /\ validated_items = << >>
    /\ raised = "none"
    /\ LambdaIdle
    /\ CacheIdle

(***************************************************************************)
(* The whole pipeline on the invoice lines of one supplier with the        *)
(* descriptions 'buy bread', 'buy bred' and 'pay rent', in any order.      *)
(***************************************************************************)
ExampleLines == {<<"P1", "buy bread">>, <<"P1", "buy bred">>, <<"P1", "pay rent">>}

ExampleFrames ==
    {f \in Frames(ExampleLines) :
        /\ Len(f) = 3
        /\ \A i, j \in 1..3 : f[i].DESCRIZIONE = f[j].DESCRIZIONE => i = j}

InitExample == InitWith(ExampleFrames, {ThresholdPct}, {BATCH_SIZE})

SpecExample == InitExample /\ [][Next]_vars

InitValidate ==
    /\ pc = "parsed"
    /\ PipelineIdle
    /\ text = << >>
    /\ cleaned = << >>
    /\ \/ \E k \in {"number", "string", "null"} : parsed = JsonScalar(k)
       \/ \E l \in Lists : parsed = JsonList(l)
       \/ \E k \in JsonKeys : parsed = OneMember(k, NumberSlot)
       \/ \E k \in JsonKeys, l \in Lists : parsed = OneMember(k, ListSlot(l))
       \/ \E l \in Lists, w \in SmallSlots : parsed = TwoMembers(ListSlot(l), w)
       \/ \E l \in Lists, w \in SmallSlots : parsed = TwoMembers(w, ListSlot(l))
       \/ \E w \in SmallSlots : parsed = TwoMembers(NumberSlot, w)
       \/ \E w \in SmallSlots : parsed = TwoMembers(w, NumberSlot)
    /\ validated_items = << >>
    /\ raised = "none"
    /\ LambdaIdle
    /\ CacheIdle

NextValidate == ValidateResponse

\* cache.set_category(company, description, category)
SetCategory(company, description, category) ==
    /\ pc = "cache"
    /\ cache' = set_category(cache, company, description, category)
    /\ UNCHANGED <<pc, df, threshold, batch_size, clustered_fatture, reduced_row,
                   categorized_fatture, batches, started, thread, results,
                   all_processed, exc, result, text, cleaned, parsed,
                   validated_items, raised, lambda_vars, lookup>>

\* cache.has_category(company, description) and then
\* cache.get_category(company, description), on the same cache
HasThenGet(company, description) ==
    /\ pc = "cache"
    /\ lookup' = <<[company |-> company, description |-> description,
                   has |-> has_category(cache, company, description),
                   get |-> get_category(cache, company, description)]>>
    /\ UNCHANGED <<pc, df, threshold, batch_size, clustered_fatture, reduced_row,
                   categorized_fatture, batches, started, thread, results,
                   all_processed, exc, result, text, cleaned, parsed,
                   validated_items, raised, lambda_vars, cache>>

InitCache ==
    /\ pc = "cache"
    /\ PipelineIdle
    /\ text = << >>
    /\ cleaned = << >>
    /\ parsed = "none"
    /\ validated_items = << >>
    /\ raised = "none"
    /\ LambdaIdle
    /\ CacheIdle

\* categories are stored for the first company only; the other one is
\* looked up and never found
NextCache ==
    \/ \E company \in {RagioneSociale(PIVAs[1])}, description \in Descriptions, category \in Cats :
            SetCategory(company, description, category)
    \/ \E company \in Companies, description \in Descriptions :
            HasThenGet(company, description)

SpecCache == InitCache /\ [][NextCache]_vars

InitLambda ==
    /\ pc = "event"
    /\ PipelineIdle
    /\ text = << >>
    /\ cleaned = << >>
    /\ parsed = "none"
    /\ validated_items = << >>
    /\ raised = "none"
    /\ event \in Events
    /\ trigger_source = "none"
    /\ handler = << >>
    /\ CacheIdle

NextLambda == IdentifyTrigger \/ RouteEvent

SpecLambda == InitLambda /\ [][NextLambda]_vars

SpecValidate == InitValidate /\ [][NextValidate]_vars

NextText == CleanText \/ CleanTextAgain

SpecText == InitText /\ [][NextText]_vars

(***************************************************************************)
(* Properties of process_batch (the worker of one batch)                   *)
(***************************************************************************)
\* the request that process_batch builds for the batch of thread k
RequestOf(k) == <<create_user_prompt(batches[k]), SYSTEM_PROMPT>>

\* C1: a worker whose calls of get_response have all failed has made at most
\* LLM_Tries calls, all with the same (user prompt, system prompt) pair, and
\* has stored no batch in results; once it has made LLM_Tries calls it is
\* dead with the error of the last attempt, and it dies at no other moment.
C1_ExhaustedRetries ==
    \A k \in 1..Len(thread) :
        LET t == thread[k]
        IN  t.state # "done" =>
                /\ t.calls <= LLM_Tries
                /\ t.calls = LLM_Tries - t.tries
                /\ t.sent \subseteq {RequestOf(k)}
                /\ (t.calls > 0 => t.sent = {RequestOf(k)})
                /\ (k - 1) \notin DOMAIN results
                /\ (t.calls = LLM_Tries =>
                        t.state = "dead" /\ t.raised = ErrorOf(LLM_Tries))
                /\ (t.state = "dead" => t.calls = LLM_Tries)

\* a worker has exhausted its retries
C1_Witness == \E k \in 1..Len(thread) : thread[k].state = "dead"

\* the category that the last item of response naming id carries
LastCategory(response, id) ==
    LET named == {j \in 1..Len(response) : response[j].id = id}
        last == CHOOSE j \in named : \A m \in named : m <= j
    IN  response[last].CATEGORIA

NamedIds(response) == {response[j].id : j \in 1..Len(response)}

\* C2: a worker that got a response after k failed calls (0 <= k < LLM_Tries)
\* has made exactly k + 1 calls, raised nothing, and returned its batch, in
\* which every row named by the response carries the response's category.
C2_RetryThenSuccess ==
    \A k \in 1..Len(thread) :
        LET t == thread[k]
            failed == LLM_Tries - t.tries
        IN  t.state = "done" =>
                /\ failed \in 0..(LLM_Tries - 1)
                /\ t.calls = failed + 1
                /\ t.raised = 0
                /\ (k - 1) \in DOMAIN results
                /\ results[k - 1] = batches[k]
                /\ \A j \in 1..Len(results[k - 1]) :
                        LET row == results[k - 1][j]
                        IN  row.id \in NamedIds(t.response) =>
                                row.CATEGORIA = LastCategory(t.response, row.id)

\* a worker succeeded on its last try, with a response naming two of its rows
C2_Witness ==
    \E k \in 1..Len(thread) :
        /\ thread[k].state = "done"
        /\ thread[k].calls = LLM_Tries
        /\ Len(results[k - 1]) = 2
        /\ \A j \in 1..2 : results[k - 1][j].CATEGORIA \in Cats

(***************************************************************************)
(* Properties of categorize_invoices and categorize_and_return_to_jump     *)
(***************************************************************************)
HasSentinel(frame) == \E k \in 1..Len(frame) : frame[k].CATEGORIA = Sentinel

\* C3: categorize_invoices has returned normally only if no representative
\* of its result holds the sentinel 'No categorizzato'; whenever the merged
\* representatives still hold a sentinel it has raised instead.
C3_NoSentinelReturned ==
    /\ pc \in {"categorized", "done"} => ~HasSentinel(categorized_fatture)
    /\ (pc \in {"categorized", "done", "except", "failed"}
            /\ HasSentinel(categorized_fatture))
        => (pc \in {"except", "failed"} /\ exc # "none")

\* categorize_invoices raised on a partly categorised result
C3_Witness ==
    /\ pc = "except"
    /\ exc = "ValueError"
    /\ HasSentinel(categorized_fatture)
    /\ \E k \in 1..Len(categorized_fatture) :
            categorized_fatture[k].CATEGORIA \in Cats

\* the row of clustered_fatture that the output row o comes from
ClusteredRowOf(o) ==
    CHOOSE k \in 1..Len(clustered_fatture) : clustered_fatture[k].ROW = o.ROW

\* C4: after a successful run every input record is in the output with the
\* category of the representative of its own (P_IVA, cluster) group, and no
\* output record holds the sentinel or a missing category.
C4_CategoryOfOwnGroup ==
    pc = "done" =>
        /\ \A k \in 1..Len(df) : \E j \in 1..Len(result) : result[j].ROW = df[k].ROW
        /\ \A j \in 1..Len(result) :
                LET c == clustered_fatture[ClusteredRowOf(result[j])]
                    reps == {m \in 1..Len(categorized_fatture) :
                                SameGroup(c, categorized_fatture[m])}
                IN  /\ reps # {}
                    /\ \A m \in reps :
                            result[j].CATEGORIA = categorized_fatture[m].CATEGORIA
                    /\ result[j].CATEGORIA \notin {Sentinel, NaN}

\* a successful run with a group of two records and a second group that was
\* given another category
C4_Witness ==
    /\ pc = "done"
    /\ \E a, b, c \in 1..Len(result) :
            /\ a # b
            /\ SameGroup(clustered_fatture[ClusteredRowOf(result[a])],
                         clustered_fatture[ClusteredRowOf(result[b])])
            /\ result[a].CATEGORIA # result[c].CATEGORIA

\* C8: after a successful run the output has one row per input row, each
\* input row is found exactly once with its columns unchanged, and no output
\* row has a cluster column.
C8_SameRowsNoCluster ==
    pc = "done" =>
        /\ Len(result) = Len(df)
        /\ \A k \in 1..Len(df) :
                LET hits == {j \in 1..Len(result) : result[j].ROW = df[k].ROW}
                IN  /\ Cardinality(hits) = 1
                    /\ \A j \in hits :
                            /\ result[j].P_IVA = df[k].P_IVA
                            /\ result[j].RAGIONE_SOCIALE = df[k].RAGIONE_SOCIALE
                            /\ result[j].DESCRIZIONE = df[k].DESCRIZIONE
        /\ \A j \in 1..Len(result) : "cluster" \notin DOMAIN result[j]

\* a successful run on three records of two suppliers
C8_Witness ==
    /\ pc = "done"
    /\ Len(result) >= 3
    /\ \E a, b \in 1..Len(result) : result[a].P_IVA # result[b].P_IVA

\* C9 as stated: the output of a successful run lists the records in the
\* relative order of the input.
C9_InputOrderKept ==
    pc = "done" =>
        \A a, b \in 1..Len(result) : a < b => result[a].ROW < result[b].ROW

\* C9 amended: the output of a successful run lists the records in ascending
\* order of (P_IVA, DESCRIZIONE), records with equal keys in their input
\* order, whatever the order in which the workers completed.
C9_SortedOrder ==
    pc = "done" =>
        \A a, b \in 1..Len(result) :
            a < b =>
                /\ ~RowLess(result[b], result[a])
                /\ (~RowLess(result[a], result[b]) => result[a].ROW < result[b].ROW)

\* a successful run whose output order differs from the input order, with
\* two records of equal keys
C9_Witness ==
    /\ pc = "done"
    /\ \E a \in 1..Len(result) : result[a].ROW # a
    /\ \E a, b \in 1..Len(result) :
            /\ a # b
            /\ result[a].P_IVA = result[b].P_IVA
            /\ result[a].DESCRIZIONE = result[b].DESCRIZIONE

(***************************************************************************)
(* Properties of process_batches_in_parallel                               *)
(***************************************************************************)
AllDone == \A k \in 1..Len(thread) : thread[k].state = "done"
SomeDead == \E k \in 1..Len(thread) : thread[k].state = "dead"
Returning == pc = "threads" /\ pc' # "threads"

\* C5 as stated: if every batch succeeds, process_batches_in_parallel
\* returns as many rows as there are representatives, and the row at each
\* position is the representative of that position, whatever the order in
\* which the workers completed.
C5_RowPerRepresentative ==
    [][(Returning /\ AllDone) =>
            /\ pc' = "processed"
            /\ Len(all_processed') = Len(reduced_row)
            /\ \A k \in 1..Len(reduced_row) :
                    k <= Len(all_processed') =>
                        /\ all_processed'[k].P_IVA = reduced_row[k].P_IVA
                        /\ all_processed'[k].cluster = reduced_row[k].cluster
                        /\ all_processed'[k].ROW = reduced_row[k].ROW]_vars

\* C6 as stated: if a batch has exhausted its retries, the caller of
\* process_batches_in_parallel gets an error once the workers are joined.
C6_FailureSignalled ==
    [][(Returning /\ SomeDead) => pc' = "except"]_vars

RECURSIVE RowsBefore(_, _)
RowsBefore(res, i) ==
    IF i = 0 THEN 0
    ELSE RowsBefore(res, i - 1)
         + (IF (i - 1) \in DOMAIN res THEN Len(res[i - 1]) ELSE 0)

\* C7: the entry that a successful worker stored in results is its batch
\* with its response applied; no step of another worker (its failures and
\* its death included) removes or alters it, and when the workers are
\* joined it is found whole in the returned frame, after the rows of the
\* batches of lower index.
C7_SiblingResultsKept ==
    [][/\ \A i \in DOMAIN results :
            /\ thread[i + 1].state = "done"
            /\ results[i] =
                 apply_response(
                    split_into_batches(categorized_fatture, BATCH_SIZE)[i + 1],
                    thread[i + 1].response)
            /\ pc' = "threads" => (i \in DOMAIN results' /\ results'[i] = results[i])
       /\ Returning =>
            \/ pc' = "except" /\ DOMAIN results = {}
            \/ /\ pc' = "processed"
               /\ Len(all_processed') = RowsBefore(results, Len(batches))
               /\ \A i \in DOMAIN results :
                    \A j \in 1..Len(results[i]) :
                        all_processed'[RowsBefore(results, i) + j] = results[i][j]
      ]_vars

\* process_batches_in_parallel returned the rows of one batch while the
\* representative of another batch is missing from them
C7_Witness ==
    /\ pc = "processed"
    /\ all_processed # << >>
    /\ \E k \in 1..Len(reduced_row) :
            \A j \in 1..Len(all_processed) : all_processed[j].ROW # reduced_row[k].ROW

(***************************************************************************)
(* Properties of sequential_cluster                                        *)
(***************************************************************************)
ClustersOf(p) ==
    {clustered_fatture[k].cluster :
        k \in {m \in 1..Len(clustered_fatture) : clustered_fatture[m].P_IVA = p}}

Suppliers == {df[k].P_IVA : k \in 1..Len(df)}

\* C10: after sequential_cluster every input record is in the result with a
\* cluster id; the cluster ids of a supplier are exactly 0..k-1 for its k
\* groups; records of different suppliers never have the same
\* (P_IVA, cluster) pair.
C10_ClusterIds ==
    pc # "read" =>
        /\ Len(clustered_fatture) = Len(df)
        /\ \A k \in 1..Len(df) :
                \E j \in 1..Len(clustered_fatture) :
                    /\ clustered_fatture[j].ROW = df[k].ROW
                    /\ clustered_fatture[j].P_IVA = df[k].P_IVA
                    /\ clustered_fatture[j].DESCRIZIONE = df[k].DESCRIZIONE
                    /\ clustered_fatture[j].cluster \in Nat
        /\ \A p \in Suppliers :
                ClustersOf(p) = 0..(Cardinality(ClustersOf(p)) - 1)
        /\ \A a, b \in 1..Len(clustered_fatture) :
                clustered_fatture[a].P_IVA # clustered_fatture[b].P_IVA =>
                    <<clustered_fatture[a].P_IVA, clustered_fatture[a].cluster>>
                        # <<clustered_fatture[b].P_IVA, clustered_fatture[b].cluster>>

\* a clustered frame of two suppliers, the first of them with two groups
C10_Witness ==
    /\ pc # "read"
    /\ Cardinality(Suppliers) = 2
    /\ Cardinality(ClustersOf(PIVAs[1])) = 2

(***************************************************************************)
(* Properties of representatives                                           *)
(***************************************************************************)
GroupOf(r) == <<r.P_IVA, r.cluster>>

Groups == {GroupOf(clustered_fatture[k]) : k \in 1..Len(clustered_fatture)}

\* position in clustered_fatture of the first record of group g
FirstOf(g) ==
    CHOOSE k \in 1..Len(clustered_fatture) :
        /\ GroupOf(clustered_fatture[k]) = g
        /\ \A m \in 1..(k - 1) : GroupOf(clustered_fatture[m]) # g

\* C11: representatives returns, for every distinct (P_IVA, cluster) pair of
\* the clustered frame, exactly one record, the first record of that group in
\* the sorted order of the clustering; there are as many representatives as
\* groups and no record is returned twice.
C11_OnePerGroup ==
    pc \notin {"read", "clustered"} =>
        /\ \A g \in Groups :
                /\ Cardinality({j \in 1..Len(reduced_row) :
                                    GroupOf(reduced_row[j]) = g}) = 1
                /\ \E j \in 1..Len(reduced_row) :
                        reduced_row[j] = clustered_fatture[FirstOf(g)]
        /\ Len(reduced_row) = Cardinality(Groups)
        /\ \A i, j \in 1..Len(reduced_row) :
                reduced_row[i].ROW = reduced_row[j].ROW => i = j

\* two groups, one of them with more than one record
C11_Witness ==
    /\ pc = "reps"
    /\ Cardinality(Groups) = 2
    /\ Len(clustered_fatture) = 3
    /\ Len(reduced_row) = 2

(***************************************************************************)
(* Properties of split_into_batches                                        *)
(***************************************************************************)
RECURSIVE Flatten(_)
Flatten(seqs) == IF seqs = << >> THEN << >> ELSE Head(seqs) \o Flatten(Tail(seqs))

\* the batches that hold the representative of index label id
BatchesOf(id) ==
    {i \in 1..Len(batches) : \E j \in 1..Len(batches[i]) : batches[i][j].id = id}

\* C12: the batches of split_into_batches, concatenated in order, are the
\* sequence of representatives it was given: every representative is in
\* exactly one batch and the relative order is kept.
C12_ConcatIsInput ==
    pc = "split" =>
        /\ Flatten(batches) = WithSentinel(reduced_row)
        /\ \A id \in 0..(Len(reduced_row) - 1) : Cardinality(BatchesOf(id)) = 1

\* three representatives in more than one batch
C12_Witness ==
    /\ pc = "split"
    /\ Len(reduced_row) = 3
    /\ Len(batches) >= 2

\* ceil(n / N): the least number of batches of N rows that hold n rows
CeilDiv(n, N) == CHOOSE c \in 0..n : c * N >= n /\ \A d \in 0..(c - 1) : d * N < n

\* C13: for n representatives and batch size N there are ceil(n/N) batches,
\* none empty, none larger than N, only the last may be smaller than N; no
\* representative gives no batch.
C13_BatchSizes ==
    pc = "split" =>
        /\ Len(batches) = CeilDiv(Len(reduced_row), batch_size)
        /\ \A i \in 1..Len(batches) :
                /\ Len(batches[i]) >= 1
                /\ Len(batches[i]) <= batch_size
                /\ i < Len(batches) => Len(batches[i]) = batch_size
        /\ Len(reduced_row) = 0 => batches = << >>

\* a full batch followed by a smaller last batch
C13_Witness ==
    /\ pc = "split"
    /\ Len(batches) = 2
    /\ Len(batches[1]) = batch_size
    /\ Len(batches[2]) < batch_size

\* no representative at all
C13_WitnessEmpty == pc = "split" /\ reduced_row = << >> /\ batches = << >>

(***************************************************************************)
(* Properties of process_batch on a partial response                       *)
(***************************************************************************)
\* the identifiers of the batch that worker k was given, in batch order
BatchIds(k) == [j \in 1..Len(thread[k].user_prompt) |-> thread[k].user_prompt[j][1]]

Omitted(k) ==
    {BatchIds(k)[j] : j \in 1..Len(BatchIds(k))} \ NamedIds(thread[k].response)

\* C14: when a worker got a response, every row of its batch whose
\* identifier is in the response carries the response's category, every row
\* whose identifier the response omits is the row as it was before the
\* call, and the worker has raised nothing.
C14_OmittedUntouched ==
    \A k \in 1..Len(thread) :
        thread[k].state = "done" =>
            /\ thread[k].raised = 0
            /\ Len(results[k - 1]) >= Len(BatchIds(k))
            /\ \A j \in 1..Len(BatchIds(k)) :
                    LET id == BatchIds(k)[j]
                        row == results[k - 1][j]
                    IN  IF id \in NamedIds(thread[k].response)
                        THEN /\ row.id = id
                             /\ row.CATEGORIA = LastCategory(thread[k].response, id)
                        ELSE row = categorized_fatture[id + 1]

\* a batch of two rows answered by a response that names one of them only
C14_Witness ==
    \E k \in 1..Len(thread) :
        /\ thread[k].state = "done"
        /\ Len(BatchIds(k)) = 2
        /\ Cardinality(Omitted(k)) = 1
        /\ \E j \in 1..2 : results[k - 1][j].CATEGORIA = Sentinel
        /\ \E j \in 1..2 : results[k - 1][j].CATEGORIA \in Cats

(***************************************************************************)
(* Properties of clean_text                                                *)
(***************************************************************************)
\* C15: clean_text applied to a text that clean_text returned gives that
\* text again.
C15_Idempotent == pc = "recleaned" => cleaned[2] = cleaned[1]

\* clean_text changed the text it was given and returned two words
C15_Witness ==
    /\ pc = "recleaned"
    /\ cleaned[1] # text
    /\ \E k \in 1..Len(cleaned[1]) : cleaned[1][k] = " "

WellFormed(t) ==
    /\ \A k \in 1..Len(t) : t[k] \in LowerLetters \cup {" "}
    /\ t # << >> => t[1] # " " /\ t[Len(t)] # " "
    /\ \A k \in 1..(Len(t) - 1) : ~(t[k] = " " /\ t[k + 1] = " ")

HasAsciiLetter(t) == \E k \in 1..Len(t) : t[k] \in LowerLetters \cup UpperLetters

\* C16 as stated: clean_text returns a text of letters a-z and single
\* spaces, without a space at either end, and a text that has no ASCII
\* letter gives the empty text.
C16_NoAsciiLetterGivesEmpty ==
    pc = "cleaned" =>
        /\ WellFormed(cleaned[1])
        /\ ~HasAsciiLetter(text) => cleaned[1] = << >>

\* C16, amended: clean_text returns a text of letters a-z and single spaces,
\* without a space at either end, and a text whose lowercase form
\* (str.lower) has no ASCII letter gives the empty text.
C16_WellFormed ==
    pc = "cleaned" =>
        /\ WellFormed(cleaned[1])
        /\ ~HasAsciiLetter(ToLower(text)) => cleaned[1] = << >>

\* a text of a letter, punctuation and a character outside ASCII
C16_Witness ==
    /\ pc = "cleaned"
    /\ text = <<"B", ".", "U+00C9">>
    /\ cleaned[1] = <<"b">>

\* a text without ASCII letter
C16_WitnessEmpty ==
    /\ pc = "cleaned"
    /\ text = <<"1", "U+00E9", "U+00A0">>
    /\ cleaned[1] = << >>

(***************************************************************************)
(* Properties of validate_response                                         *)
(***************************************************************************)
\* the recognized keys of an object that hold a list
ListKeys(value) ==
    {k \in 1..Len(RecognizedKeys) : value.entries[RecognizedKeys[k]].kind = "list"}

\* the list under the first recognized key that holds a list
FirstList(value) ==
    LET k == CHOOSE m \in ListKeys(value) : \A n \in ListKeys(value) : m <= n
    IN  value.entries[RecognizedKeys[k]].items

IsValidElement(e) == e.kind = "dict" /\ e.id # Absent /\ e.CATEGORIA # Absent

NoValidElement(l) == \A k \in 1..Len(l) : ~IsValidElement(l[k])

\* the cases in which validate_response is to fail
InvalidFormat(value) ==
    \/ value.kind \notin {"dict", "list"}
    \/ value.kind = "dict" /\ ListKeys(value) = {}
    \/ value.kind = "list"
            /\ \E k \in 1..Len(value.items) : ~IsValidElement(value.items[k])
    \/ value.kind = "dict" /\ ListKeys(value) # {}
            /\ NoValidElement(FirstList(value))
    \/ value.kind = "list" /\ value.items = << >>

\* C17: validate_response raises ValueError and returns no item when the
\* parsed top level is neither an object nor a list, when it is an object
\* without a list under a recognized key, when it is a bare list with an
\* element that is not an object having both id and CATEGORIA, and when the
\* located list is empty or has no element with both fields.
C17_InvalidRaisesValueError ==
    (pc = "validated" /\ InvalidFormat(parsed)) =>
        raised = "ValueError" /\ validated_items = << >>

\* the elements of l that have both fields, in the order of l
ValidElements(l) == SelectSeq(l, IsValidElement)

Coercible(l) == \A k \in 1..Len(l) : IsValidElement(l[k]) => IntError(l[k].id) = "none"

\* validated_items is the elements of l that have both fields, in order,
\* each with an integer id and a string category
ReturnsElementsOf(l) ==
    /\ Len(validated_items) = Len(ValidElements(l))
    /\ \A j \in 1..Len(validated_items) :
            /\ validated_items[j].id \in Int
            /\ validated_items[j].CATEGORIA \in STRING
            /\ IntError(ValidElements(l)[j].id) = "none" =>
                    /\ validated_items[j].id = IntOf(ValidElements(l)[j].id)
                    /\ validated_items[j].CATEGORIA = StrOf(ValidElements(l)[j].CATEGORIA)

\* C18 as stated: for an object that holds, under a recognized key, a list
\* with at least one element having both id and CATEGORIA,
\* validate_response succeeds and returns exactly the elements of that list
\* that have both fields, in order, with integer id and string category.
C18_ValidListAccepted ==
    (/\ pc = "validated"
     /\ parsed.kind = "dict"
     /\ \E k \in ListKeys(parsed) :
            ~NoValidElement(parsed.entries[RecognizedKeys[k]].items)) =>
        /\ raised = "none"
        /\ \E k \in ListKeys(parsed) :
                /\ ~NoValidElement(parsed.entries[RecognizedKeys[k]].items)
                /\ ReturnsElementsOf(parsed.entries[RecognizedKeys[k]].items)

\* C18, amended: for an object in which the first recognized key that holds
\* a list holds a list with at least one element having both id and
\* CATEGORIA, and in which int() accepts the id of every such element,
\* validate_response succeeds and returns exactly the elements of that list
\* that have both fields, in order, with integer id and string category;
\* the other elements are dropped.
C18_FirstListCoerced ==
    (/\ pc = "validated"
     /\ parsed.kind = "dict"
     /\ ListKeys(parsed) # {}
     /\ ~NoValidElement(FirstList(parsed))
     /\ Coercible(FirstList(parsed))) =>
        /\ raised = "none"
        /\ ReturnsElementsOf(FirstList(parsed))

\* an element without CATEGORIA is dropped, an id given as a string is kept
\* as an integer
C18_Witness ==
    /\ pc = "validated"
    /\ parsed.kind = "dict"
    /\ parsed.entries["results"].kind = "list"
    /\ Len(parsed.entries["results"].items) = 2
    /\ ~IsValidElement(parsed.entries["results"].items[1])
    /\ parsed.entries["results"].items[1].kind = "dict"
    /\ validated_items = <<[id |-> 1, CATEGORIA |-> "Food"]>>
    /\ raised = "none"

(***************************************************************************)
(* Properties of the error handling of categorize_and_return_to_jump       *)
(***************************************************************************)
ErrorResult == [statusCode |-> 500, body |-> "Error occurred while processing"]

\* C19: once categorize_invoices has raised, whatever the exception,
\* categorize_and_return_to_jump does not go on to the merge: it returns the
\* error result of status 500 and nothing else; and it returns that result
\* only after an exception.
C19_ErrorResultOnFailure ==
    /\ exc # "none" =>
            /\ pc \in {"except", "failed"}
            /\ pc = "failed" => result = ErrorResult
    /\ pc \in {"except", "failed"} => exc \in {"ValueError", "AssertionError"}

\* the error result was returned although some representatives had got a
\* category
C19_Witness ==
    /\ pc = "failed"
    /\ exc = "ValueError"
    /\ result = ErrorResult
    /\ \E k \in 1..Len(categorized_fatture) :
            categorized_fatture[k].CATEGORIA \in Cats

\* the error result after the assertion on the empty results
C19_WitnessAssertion == pc = "failed" /\ exc = "AssertionError" /\ result = ErrorResult

(***************************************************************************)
(* The example of one supplier with two bread lines and one rent line      *)
(***************************************************************************)
Column(frame, col) == [k \in 1..Len(frame) |-> frame[k][col]]

ExampleResponse == <<[id |-> 0, CATEGORIA |-> "Food"], [id |-> 1, CATEGORIA |-> "Rent"]>>

\* C20: for supplier P1 with the descriptions 'buy bread', 'buy bred' and
\* 'pay rent' at threshold 0.8 the two bread records are in cluster 0 and
\* the rent record in cluster 1; the representatives are 'buy bread' and
\* 'pay rent'; a response giving Food to the first and Rent to the second
\* representative leads to an output with Food on both bread records and
\* Rent on the rent record.
C20_BreadAndRent ==
    /\ pc # "read" =>
            /\ Column(clustered_fatture, "DESCRIZIONE")
                    = <<"buy bread", "buy bred", "pay rent">>
            /\ Column(clustered_fatture, "cluster") = <<0, 0, 1>>
    /\ pc \notin {"read", "clustered"} =>
            Column(reduced_row, "DESCRIZIONE") = <<"buy bread", "pay rent">>
    /\ \A k \in 1..Len(thread) :
            (thread[k].state = "done" /\ thread[k].response = ExampleResponse) =>
                /\ Column(results[k - 1], "DESCRIZIONE") = <<"buy bread", "pay rent">>
                /\ Column(results[k - 1], "CATEGORIA") = <<"Food", "Rent">>
    /\ (/\ pc = "done"
        /\ Column(all_processed, "DESCRIZIONE") = <<"buy bread", "pay rent">>
        /\ Column(all_processed, "CATEGORIA") = <<"Food", "Rent">>) =>
            /\ Column(result, "DESCRIZIONE") = <<"buy bread", "buy bred", "pay rent">>
            /\ Column(result, "CATEGORIA") = <<"Food", "Food", "Rent">>
            /\ \A k \in 1..3 : \E j \in 1..3 :
                    /\ df[j].ROW = result[k].ROW
                    /\ df[j].DESCRIZIONE = result[k].DESCRIZIONE

\* the output of the example, from an input that was not in sorted order
C20_Witness ==
    /\ pc = "done"
    /\ Column(df, "DESCRIZIONE") = <<"pay rent", "buy bred", "buy bread">>
    /\ Column(all_processed, "CATEGORIA") = <<"Food", "Rent">>
    /\ Column(result, "CATEGORIA") = <<"Food", "Food", "Rent">>

(***************************************************************************)
(* Properties of identify_trigger and lambda_handler                       *)
(***************************************************************************)
JumpShaped(e) ==
    /\ e.headers
    /\ e.body = "destination and source"
    /\ ~e.httpMethod
    /\ e.requestContext # "apiId"
    /\ e.Records = Absent
    /\ e.trigger_source = Absent

\* C21: for an event with headers and a body holding destination and
\* source, without httpMethod, without a requestContext holding apiId,
\* without Records and without trigger_source, identify_trigger returns
\* 'jump', and lambda_handler calls handle_jump and no other handler.
C21_JumpRouted ==
    (pc \in {"event", "identified", "routed", "crashed"} /\ JumpShaped(event)) =>
        /\ pc # "crashed"
        /\ pc \in {"identified", "routed"} => trigger_source = "jump"
        /\ pc = "routed" => handler = <<"handle_jump">>

\* a jump event that has a requestContext without apiId
C21_Witness ==
    /\ pc = "routed"
    /\ JumpShaped(event)
    /\ event.requestContext = "no apiId"
    /\ handler = <<"handle_jump">>

(***************************************************************************)
(* The walk of sequential_cluster                                          *)
(***************************************************************************)
Normalized(r) == clean_text(Chars(r.DESCRIZIONE))

SimilarRows(r, s) == similar(Normalized(r), Normalized(s), threshold)

\* C22: in the result of sequential_cluster the records of a supplier are
\* contiguous and in ascending order of raw description; the first record
\* of a supplier has cluster 0; every later record has the cluster id of
\* its immediate predecessor if its normalized description is similar to
\* the predecessor's at the threshold, and that id plus one otherwise.
C22_WalkRule ==
    pc # "read" =>
        \A i \in 1..Len(clustered_fatture) :
            LET cur == clustered_fatture[i]
            IN  IF i = 1 \/ clustered_fatture[i - 1].P_IVA # cur.P_IVA
                THEN /\ cur.cluster = 0
                     /\ \A j \in 1..(i - 1) : clustered_fatture[j].P_IVA # cur.P_IVA
                ELSE LET prev == clustered_fatture[i - 1]
                     IN  /\ ~StrLess(Chars(cur.DESCRIZIONE), Chars(prev.DESCRIZIONE))
                         /\ cur.cluster = IF SimilarRows(prev, cur) THEN prev.cluster
                                          ELSE prev.cluster + 1

\* three records of one supplier in one cluster, the third similar to the
\* second and not to the first
C22_Witness ==
    /\ pc # "read"
    /\ Len(clustered_fatture) = 3
    /\ \A i \in 1..3 : clustered_fatture[i].P_IVA = PIVAs[1]
                        /\ clustered_fatture[i].cluster = 0
    /\ SimilarRows(clustered_fatture[2], clustered_fatture[3])
    /\ ~SimilarRows(clustered_fatture[1], clustered_fatture[3])

\* the predecessor started a new cluster and the record joins it
C22_WitnessAfterNew ==
    /\ pc # "read"
    /\ Len(clustered_fatture) = 3
    /\ \A i \in 1..3 : clustered_fatture[i].P_IVA = PIVAs[1]
    /\ clustered_fatture[1].cluster = 0
    /\ clustered_fatture[2].cluster = 1
    /\ clustered_fatture[3].cluster = 1
    /\ clustered_fatture[2].DESCRIZIONE # clustered_fatture[3].DESCRIZIONE

Equivalent(r, s) == r.P_IVA = s.P_IVA /\ Normalized(r) = Normalized(s)

\* the pairs a < b of equivalent records of the clustered frame
EquivalentPairs ==
    {ab \in (1..Len(clustered_fatture)) \X (1..Len(clustered_fatture)) :
        /\ ab[1] < ab[2]
        /\ Equivalent(clustered_fatture[ab[1]], clustered_fatture[ab[2]])}

\* a record strictly between a and b that is dissimilar to both
DissimilarBetween(a, b) ==
    \E x \in (a + 1)..(b - 1) :
        /\ ~SimilarRows(clustered_fatture[x], clustered_fatture[a])
        /\ ~SimilarRows(clustered_fatture[a], clustered_fatture[x])
        /\ ~SimilarRows(clustered_fatture[x], clustered_fatture[b])
        /\ ~SimilarRows(clustered_fatture[b], clustered_fatture[x])

\* a record after a, up to b, that is dissimilar to its predecessor
BreakBetween(a, b) ==
    \E x \in (a + 1)..b :
        ~SimilarRows(clustered_fatture[x - 1], clustered_fatture[x])

\* C23 as stated: two equivalent records of a supplier with a record
\* between them in the sort order that is dissimilar to them get different
\* cluster ids.
C23_DissimilarBetweenSeparates ==
    pc # "read" =>
        \A ab \in EquivalentPairs :
            DissimilarBetween(ab[1], ab[2]) =>
                clustered_fatture[ab[1]].cluster # clustered_fatture[ab[2]].cluster

\* C23, amended: two equivalent records of a supplier get different
\* cluster ids if some record after the first and up to the second in the
\* sort order is dissimilar to its immediate predecessor, and the same
\* cluster id otherwise.
C23_BreakSeparates ==
    pc # "read" =>
        \A ab \in EquivalentPairs :
            BreakBetween(ab[1], ab[2]) <=>
                clustered_fatture[ab[1]].cluster # clustered_fatture[ab[2]].cluster

\* two equivalent records in different clusters, with a record between
\* them that is dissimilar to them and to its predecessor
C23_Witness ==
    /\ pc # "read"
    /\ \E ab \in EquivalentPairs :
            /\ DissimilarBetween(ab[1], ab[2])
            /\ BreakBetween(ab[1], ab[2])
            /\ clustered_fatture[ab[1]].cluster # clustered_fatture[ab[2]].cluster

(***************************************************************************)
(* Pairs of a response that match no representative of the batch           *)
(***************************************************************************)
Unmatched(k) ==
    NamedIds(thread[k].response) \ {BatchIds(k)[j] : j \in 1..Len(BatchIds(k))}

\* C24 as stated: when a successful response has a pair whose identifier
\* matches no representative of the batch, the batch that process_batch
\* returns has the rows it had before, none added, and each of them has the
\* category that the matching pairs give it, or the one it had.
C24_UnmatchedPairIgnored ==
    \A k \in 1..Len(thread) :
        (thread[k].state = "done" /\ Unmatched(k) # {}) =>
            /\ Len(results[k - 1]) = Len(BatchIds(k))
            /\ \A j \in 1..Len(BatchIds(k)) :
                    LET id == BatchIds(k)[j]
                        row == results[k - 1][Min(j, Len(results[k - 1]))]
                    IN  /\ row.id = id
                        /\ row.CATEGORIA =
                                IF id \in NamedIds(thread[k].response)
                                THEN LastCategory(thread[k].response, id)
                                ELSE Sentinel

(***************************************************************************)
(* Each batch owns its rows                                                *)
(***************************************************************************)
\* the identifiers of the representatives that were dispatched
DispatchedIds == 0..(Len(categorized_fatture) - 1)

\* the batch that split_into_batches puts identifier id in, and the row of
\* id in that batch
Owner(id) == (id \div batch_size) + 1

OwnRow(bs, id) == bs[Owner(id)][(id % batch_size) + 1]

\* what the response to the owner's batch, and nothing else, says of id
OwnAnswer(id) ==
    IF /\ Owner(id) <= Len(thread)
       /\ thread[Owner(id)].state = "done"
       /\ id \in NamedIds(thread[Owner(id)].response)
    THEN LastCategory(thread[Owner(id)].response, id)
    ELSE Sentinel

\* C25: while the workers run, the row of a representative in its batch
\* has the category that the response to that batch gives it, or the
\* sentinel; a step changes that row only if it is the step in which the
\* worker of that batch gets its response; and the category that
\* categorize_invoices ends with for a representative is the one in its
\* own batch, whatever the responses to the other batches name.
C25_OwnResponseOnly ==
    [][/\ pc' = "threads" =>
            \A id \in DispatchedIds' :
                /\ OwnRow(batches', id).id = id
                /\ OwnRow(batches', id).CATEGORIA = OwnAnswer(id)'
       /\ pc \in {"threads", "processed"} =>
            \A id \in DispatchedIds :
                OwnRow(batches', id) # OwnRow(batches, id) =>
                    /\ thread[Owner(id)].state = "running"
                    /\ thread'[Owner(id)].state = "done"
       /\ pc' \in {"categorized", "except", "failed", "done"} =>
            /\ Len(categorized_fatture') = Len(reduced_row')
            /\ \A id \in DispatchedIds' :
                    /\ categorized_fatture'[id + 1].id = id
                    /\ categorized_fatture'[id + 1].CATEGORIA
                            = OwnRow(batches', id).CATEGORIA]_vars

\* every representative is categorised; the response to the second batch
\* named a representative of the first batch with another category than
\* the one it ends with
C25_Witness ==
    /\ pc = "categorized"
    /\ Len(batches) = 2
    /\ \E m \in 1..Len(batches[2]) :
            /\ Owner(batches[2][m].id) = 1
            /\ batches[2][m].CATEGORIA
                    # categorized_fatture[batches[2][m].id + 1].CATEGORIA

(***************************************************************************)
(* Every batch out of retries                                              *)
(***************************************************************************)
AllDead ==
    /\ Len(thread) > 0
    /\ \A k \in 1..Len(thread) : thread[k].state = "dead"

\* C26: when every worker has died out of retries, the join ends in the
\* AssertionError of the empty results and returns no frame; the
\* AssertionError is raised in that case only; after it
\* categorize_invoices has returned nothing: the control is in the except
\* branch of the caller, with no representative categorised.
C26_AllBatchesFailed ==
    [][/\ (Returning /\ AllDead) =>
            /\ pc' = "except"
            /\ exc' = "AssertionError"
            /\ all_processed' = all_processed
       /\ (exc = "none" /\ exc' = "AssertionError") => (Returning /\ AllDead)
       /\ exc' = "AssertionError" =>
            /\ pc' \in {"except", "failed"}
            /\ \A k \in 1..Len(categorized_fatture') :
                    IsSentinel(categorized_fatture'[k])]_vars

\* two batches, both workers dead, and the error is with the caller
C26_Witness ==
    /\ pc = "except"
    /\ exc = "AssertionError"
    /\ Len(batches) = 2
    /\ all_processed = << >>

(***************************************************************************)
(* The dispatch: one worker per batch, joined before the results are read  *)
(***************************************************************************)
\* the batches as categorize_invoices handed them over
OriginalBatches ==
    split_into_batches(SelectSeq(categorized_fatture, IsSentinel), batch_size)

\* the frames of the workers that got a response, in index order: each is
\* the worker's batch with the worker's response applied
RECURSIVE ResultsInOrder(_)
ResultsInOrder(k) ==
    IF k > Len(thread) THEN << >>
    ELSE (IF thread[k].state = "done"
          THEN apply_response(OriginalBatches[k], thread[k].response)
          ELSE << >>)
         \o ResultsInOrder(k + 1)

\* C27, the steps: there is one worker per started batch and never more
\* workers than batches; the step that reads results is taken only when
\* every batch has its worker and every worker has returned or died; what
\* it returns is fixed by what each worker got from the service, not by
\* the order of the workers' steps.
C27_JoinedBeforeRead ==
    [][/\ Len(thread') = started'
       /\ started' <= Len(batches')
       /\ Returning =>
            /\ Len(thread) = Len(batches)
            /\ \A k \in 1..Len(thread) : thread[k].state \in {"done", "dead"}
            /\ pc' = "processed" =>
                    all_processed' = ResultsInOrder(1)]_vars

\* C27, the end: a dispatch that has begun returns or raises
C27_DispatchEnds == (pc = "threads") ~> (pc \in {"processed", "except"})

\* C27: process_batches_in_parallel starts one worker per batch and reads
\* the results only after every worker has terminated; when every service
\* call returns the dispatch terminates, and the value it returns is the
\* same for every interleaving of the workers.
C27_Dispatch == C27_JoinedBeforeRead /\ C27_DispatchEnds

\* two workers, one that got a response after the other had died; the
\* results have been read
C27_Witness ==
    /\ pc = "processed"
    /\ Len(batches) = 2
    /\ Len(all_processed) >= 1
    /\ \E k \in 1..2 : \A m \in 1..Len(batches[k]) : IsSentinel(batches[k][m])

(***************************************************************************)
(* Order of the cluster ids; identical and empty descriptions              *)
(***************************************************************************)
SameSupplierPairs ==
    {ab \in (1..Len(clustered_fatture)) \X (1..Len(clustered_fatture)) :
        /\ ab[1] < ab[2]
        /\ clustered_fatture[ab[1]].P_IVA = clustered_fatture[ab[2]].P_IVA}

\* C28: after sequential_cluster, of two records of one supplier the later
\* one in the sorted order has a cluster id that is not smaller, and two
\* records of one supplier that have the same raw description have the
\* same cluster id, at every threshold of Thresholds.
C28_MonotoneIds ==
    pc # "read" =>
        \A ab \in SameSupplierPairs :
            LET r == clustered_fatture[ab[1]]
                s == clustered_fatture[ab[2]]
            IN  /\ r.cluster <= s.cluster
                /\ r.DESCRIZIONE = s.DESCRIZIONE => r.cluster = s.cluster

\* at threshold 1.0 a supplier has the same raw description twice, after a
\* record of another cluster
C28_Witness ==
    /\ pc # "read"
    /\ threshold = 100
    /\ \E ab \in SameSupplierPairs :
            /\ clustered_fatture[ab[1]].DESCRIZIONE = clustered_fatture[ab[2]].DESCRIZIONE
            /\ Normalized(clustered_fatture[ab[1]]) # << >>
            /\ clustered_fatture[ab[1]].cluster = 1
            /\ clustered_fatture[ab[2]].cluster = 1

\* the positions i of the clustered frame whose record and whose
\* predecessor are of one supplier and both normalize to the empty string
EmptyAdjacent ==
    {i \in 2..Len(clustered_fatture) :
        /\ clustered_fatture[i - 1].P_IVA = clustered_fatture[i].P_IVA
        /\ Normalized(clustered_fatture[i - 1]) = << >>
        /\ Normalized(clustered_fatture[i]) = << >>}

\* the category that the returned records give the input row of number n
CategoryOfRow(n) ==
    {result[k].CATEGORIA : k \in {m \in 1..Len(result) : result[m].ROW = n}}

\* C29: two records of one supplier that are adjacent in the sort order
\* and whose descriptions both normalize to the empty string have the same
\* cluster id at every threshold of Thresholds, and the same category in
\* the records that are returned.
C29_EmptyDescriptionsTogether ==
    pc # "read" =>
        \A i \in EmptyAdjacent :
            /\ clustered_fatture[i - 1].cluster = clustered_fatture[i].cluster
            /\ pc = "done" =>
                    /\ Cardinality(CategoryOfRow(clustered_fatture[i].ROW)) = 1
                    /\ CategoryOfRow(clustered_fatture[i - 1].ROW)
                            = CategoryOfRow(clustered_fatture[i].ROW)

\* "12" and "3.4" returned with one category and a third record with
\* another, at threshold 1.0
C29_Witness ==
    /\ pc = "done"
    /\ threshold = 100
    /\ \E i \in EmptyAdjacent :
            clustered_fatture[i - 1].DESCRIZIONE # clustered_fatture[i].DESCRIZIONE
    /\ Cardinality({result[k].CATEGORIA : k \in 1..Len(result)}) = 2

(***************************************************************************)
(* Properties of CompanyCache                                              *)
(***************************************************************************)
\* C30 as stated: whenever has_category(company, description) is true,
\* get_category(company, description) on the same cache is a category that
\* was assigned, and not None, also when the match is a near-duplicate.
C30_HasImpliesGet ==
    \A k \in 1..Len(lookup) :
        lookup[k].has =>
            /\ lookup[k].get # None
            /\ lookup[k].get \in Cats

====
